---- MODULE Spec2Model ----
(***************************************************************************)
(* Model of the CodeGrade submission-evaluation pipeline: the built-in     *)
(* code analyzer, the AI critique adapter, the in-memory repository and    *)
(* the HTTP routes that generate assignments and evaluate submissions.     *)
(*                                                                         *)
(* Text is modelled as a sequence of one-character strings, so that        *)
(* String.prototype.includes and toLowerCase are computed, not assumed.    *)
(***************************************************************************)
EXTENDS Integers, Sequences, FiniteSets, TLC

(***************************************************************************)
(* State                                                                   *)
(***************************************************************************)
VARIABLES
    openai,       \* TRUE iff the module-level OpenAI client is not null
    assignments,  \* MemStorage.assignments: id -> Assignment
    submissions,  \* MemStorage.submissions: id -> Submission
    req,          \* the POST /api/submissions requests in flight or answered
    gen,          \* the POST /api/assignments/generate requests in flight or answered
    an,           \* one call of the built-in analyzer: its input and its result
    gn,           \* the latest call of generateAssignment: its input and its outcome
    users,        \* MemStorage.users: id -> User
    tally         \* one run of the simulation: its test cases and its outcome

vars == <<openai, assignments, submissions, req, gen, an, gn, users, tally>>

(***************************************************************************)
(* Text primitives                                                         *)
(***************************************************************************)

\* String.prototype.includes: needle occurs as a contiguous run of s.
Includes(s, needle) ==
    \E i \in 1..(Len(s) - Len(needle) + 1) :
        \A j \in 1..Len(needle) : s[i + j - 1] = needle[j]

\* The upper-case letters String.prototype.toLowerCase changes, and what it
\* makes of each: A-Z and the letters of Latin-1 (U+00C0-U+00DE without the
\* multiplication sign).  Letters above U+00FF cannot be written in a string
\* of this module; no text of the model contains one.
UpperChars ==
    <<"A", "B", "C", "D", "E", "F", "G", "H", "I", "J", "K", "L", "M",
      "N", "O", "P", "Q", "R", "S", "T", "U", "V", "W", "X", "Y", "Z",
      "À", "Á", "Â", "Ã", "Ä", "Å", "Æ", "Ç", "È", "É", "Ê", "Ë", "Ì",
      "Í", "Î", "Ï", "Ð", "Ñ", "Ò", "Ó", "Ô", "Õ", "Ö", "Ø", "Ù", "Ú",
      "Û", "Ü", "Ý", "Þ">>
LowerChars ==
    <<"a", "b", "c", "d", "e", "f", "g", "h", "i", "j", "k", "l", "m",
      "n", "o", "p", "q", "r", "s", "t", "u", "v", "w", "x", "y", "z",
      "à", "á", "â", "ã", "ä", "å", "æ", "ç", "è", "é", "ê", "ë", "ì",
      "í", "î", "ï", "ð", "ñ", "ò", "ó", "ô", "õ", "ö", "ø", "ù", "ú",
      "û", "ü", "ý", "þ">>

ToLowerChar(c) ==
    IF \E k \in 1..Len(UpperChars) : UpperChars[k] = c
    THEN LowerChars[CHOOSE k \in 1..Len(UpperChars) : UpperChars[k] = c]
    ELSE c

\* String.prototype.toLowerCase
ToLowerCase(s) == [i \in 1..Len(s) |-> ToLowerChar(s[i])]

\* The substrings the analyzer and the submit route search for.
NeedleIntMain ==
    <<"i", "n", "t", " ", "m", "a", "i", "n">>
NeedleIncludeStdio ==
    <<"#", "i", "n", "c", "l", "u", "d", "e", " ", "<", "s", "t", "d", "i", "o", ".", "h", ">">>
NeedleInclude ==
    <<"#", "i", "n", "c", "l", "u", "d", "e">>
NeedleReturn ==
    <<"r", "e", "t", "u", "r", "n">>
NeedleLineComment ==
    <<"/", "/">>
NeedleBlockComment ==
    <<"/", "*">>
NeedlePrintf ==
    <<"p", "r", "i", "n", "t", "f">>
NeedleScanf ==
    <<"s", "c", "a", "n", "f">>
NeedleHelloLiteral ==
    <<"H", "e", "l", "l", "o", ",", " ", "W", "o", "r", "l", "d", "!">>
NeedleFor ==
    <<"f", "o", "r">>
NeedleWhile ==
    <<"w", "h", "i", "l", "e">>
NeedleOpenBracket ==
    <<"[">>
NeedleCloseBracket ==
    <<"]">>
NeedleHelloWorld ==
    <<"h", "e", "l", "l", "o", " ", "w", "o", "r", "l", "d">>
NeedleSum ==
    <<"s", "u", "m">>
NeedleFactorial ==
    <<"f", "a", "c", "t", "o", "r", "i", "a", "l">>
NeedleArray ==
    <<"a", "r", "r", "a", "y">>

\* Titles of the template bank, and the separator of a generated title.
TitleSeparator ==
    <<" ", "-", " ">>
TitleHelloWorldProgram ==
    <<"H", "e", "l", "l", "o", " ", "W", "o", "r", "l", "d", " ", "P", "r", "o", "g", "r", "a", "m">>
TitleSumOfTwoNumbers ==
    <<"S", "u", "m", " ", "o", "f", " ", "T", "w", "o", " ", "N", "u", "m", "b", "e", "r", "s">>
TitleEvenOrOdd ==
    <<"E", "v", "e", "n", " ", "o", "r", " ", "O", "d", "d">>
TitleFactorialCalculator ==
    <<"F", "a", "c", "t", "o", "r", "i", "a", "l", " ", "C", "a", "l", "c", "u", "l", "a", "t", "o", "r">>
TitleArraySum ==
    <<"A", "r", "r", "a", "y", " ", "S", "u", "m">>
TitlePrimeNumberCheck ==
    <<"P", "r", "i", "m", "e", " ", "N", "u", "m", "b", "e", "r", " ", "C", "h", "e", "c", "k">>
TitleBinarySearch ==
    <<"B", "i", "n", "a", "r", "y", " ", "S", "e", "a", "r", "c", "h", " ", "I", "m", "p", "l", "e", "m", "e", "n", "t", "a", "t", "i", "o", "n">>

\* Pieces of C source from which submitted code is assembled.
FragIncludeStdio ==
    <<"#", "i", "n", "c", "l", "u", "d", "e", " ", "<", "s", "t", "d", "i", "o", ".", "h", ">", " ">>
FragIncludeMath ==
    <<"#", "i", "n", "c", "l", "u", "d", "e", " ", "<", "m", "a", "t", "h", ".", "h", ">", " ">>
FragMainOpen ==
    <<"i", "n", "t", " ", "m", "a", "i", "n", "(", ")", "{">>
FragPrintHello ==
    <<"p", "r", "i", "n", "t", "f", "(", "\"", "H", "e", "l", "l", "o", ",", " ", "W", "o", "r", "l", "d", "!", "\"", ")", ";">>
FragHelloOnly ==
    <<"c", "h", "a", "r", "*", "s", "=", "\"", "H", "e", "l", "l", "o", ",", " ", "W", "o", "r", "l", "d", "!", "\"", ";">>
FragPrintf ==
    <<"p", "r", "i", "n", "t", "f", "(", "\"", "%", "d", "\"", ",", "n", ")", ";">>
FragScanf ==
    <<"s", "c", "a", "n", "f", "(", "\"", "%", "d", "\"", ",", "&", "n", ")", ";">>
FragFor ==
    <<"f", "o", "r", "(", ";", ";", ")", "{", "}">>
FragWhile ==
    <<"w", "h", "i", "l", "e", "(", "1", ")", "{", "}">>
FragOpenBracket ==
    <<"i", "n", "t", " ", "a", "[">>
FragCloseBracket ==
    <<"3", "]", ";">>
FragLineComment ==
    <<"/", "/", " ", "o", "k", " ">>
FragBlockComment ==
    <<"/", "*", " ", "o", "k", " ", "*", "/">>
FragReturn ==
    <<"r", "e", "t", "u", "r", "n", " ", "0", ";">>
FragClose ==
    <<"}">>

(***************************************************************************)
(* Numbers.  A score is an integer or the IEEE NaN that Math.round(0/0)    *)
(* and Math.min(100, "text") produce; NaN is a number outside every range  *)
(* used below and the Math operators treat it as JavaScript does.          *)
(***************************************************************************)
NaN == -999999

IsNaN(x) == x = NaN

\* Math.min / Math.max of two numbers: NaN if either argument is NaN.
MathMin(a, b) == IF IsNaN(a) \/ IsNaN(b) THEN NaN ELSE IF a <= b THEN a ELSE b
MathMax(a, b) == IF IsNaN(a) \/ IsNaN(b) THEN NaN ELSE IF a >= b THEN a ELSE b

\* a >= b and a <= b on numbers: false as soon as one side is NaN.
NumGE(a, b) == ~IsNaN(a) /\ ~IsNaN(b) /\ a >= b
NumLE(a, b) == ~IsNaN(a) /\ ~IsNaN(b) /\ a <= b

(***************************************************************************)
(* The built-in analyzer (analyzeCodeBuiltIn)                              *)
(***************************************************************************)
BaseScore == 60

SugMain == "Your code should include a main function: int main()"
SugStdio == "Don't forget to include #include <stdio.h> for input/output functions"
SugReturn == "Your main function should return a value (usually return 0;)"
SugHello == "Make sure to print exactly 'Hello, World!' using printf"
SugSum == "Remember to use scanf to read input and printf to display the result"
SugFactorial == "Consider using a loop (for or while) to calculate factorial"
SugArray == "This problem requires working with arrays - declare and use array variables"
SugCommentsGood == "Great job adding comments to explain your code!"
SugCommentsMissing == "Consider adding comments to explain your logic"
SugGeneric == "Your code structure looks good! Keep practicing to improve your C programming skills."

FbHello == "Great! Your Hello World program looks correct. "
FbSum == "Good use of input/output functions for the sum calculation. "
FbFactorial == "Good use of loops for factorial calculation. "
FbArray == "Good use of arrays. "
FbAnalyzed == "Your code has been analyzed. "
FbExcellent == "Excellent work! Your solution looks well-structured."
FbGood == "Good effort! There are some areas for improvement."
FbNeedsWork == "Your code needs some work. Check the suggestions below."

\* The running locals of analyzeCodeBuiltIn: suggestions, score, feedback
\* (feedback is "" until a topic sentence is set).
AnalysisStart == [suggestions |-> <<>>, score |-> BaseScore, feedback |-> ""]

Push(acc, s) == [acc EXCEPT !.suggestions = Append(@, s)]
Add(acc, n) == [acc EXCEPT !.score = @ + n]

\* A main check that takes 40 points for a missing main function.
CheckMainDoublePenalty(acc, hasMainFunction) ==
    IF ~hasMainFunction THEN Add(Push(acc, SugMain), -40) ELSE Add(acc, 10)

\* if (!hasMainFunction) {...} else {...}
CheckMain(acc, hasMainFunction) ==
    IF ~hasMainFunction THEN Add(Push(acc, SugMain), -20) ELSE Add(acc, 10)

\* if (!hasIncludeStdio && (hasPrintf || hasScanf)) {...} else if (hasIncludeStdio) {...}
CheckStdio(acc, hasIncludeStdio, hasPrintf, hasScanf) ==
    IF ~hasIncludeStdio /\ (hasPrintf \/ hasScanf) THEN Add(Push(acc, SugStdio), -10)
    ELSE IF hasIncludeStdio THEN Add(acc, 5)
    ELSE acc

\* if (!hasReturnStatement && hasMainFunction) {...} else if (hasReturnStatement) {...}
CheckReturn(acc, hasReturnStatement, hasMainFunction) ==
    IF ~hasReturnStatement /\ hasMainFunction THEN Add(Push(acc, SugReturn), -5)
    ELSE IF hasReturnStatement THEN Add(acc, 5)
    ELSE acc

\* One topic branch: a match adds points and sets the feedback sentence,
\* a miss pushes a suggestion and subtracts points.
TopicBranch(acc, matched, bonus, sentence, suggestion, penalty) ==
    IF matched THEN [Add(acc, bonus) EXCEPT !.feedback = sentence]
    ELSE Add(Push(acc, suggestion), -penalty)

\* The chain with the array branch moved in front of the sum branch.
CheckTopicArrayFirst(acc, code, title, hasPrintf, hasScanf) ==
    LET lower == ToLowerCase(title) IN
    IF Includes(lower, NeedleHelloWorld) THEN
        TopicBranch(acc, hasPrintf /\ Includes(code, NeedleHelloLiteral),
                    20, FbHello, SugHello, 15)
    ELSE IF Includes(lower, NeedleArray) THEN
        TopicBranch(acc, Includes(code, NeedleOpenBracket) /\ Includes(code, NeedleCloseBracket),
                    10, FbArray, SugArray, 15)
    ELSE IF Includes(lower, NeedleSum) THEN
        TopicBranch(acc, hasScanf /\ hasPrintf, 15, FbSum, SugSum, 10)
    ELSE IF Includes(lower, NeedleFactorial) THEN
        TopicBranch(acc, Includes(code, NeedleFor) \/ Includes(code, NeedleWhile),
                    15, FbFactorial, SugFactorial, 10)
    ELSE acc

\* Problem-specific analysis: the if / else-if chain on the lower-cased title.
CheckTopic(acc, code, title, hasPrintf, hasScanf) ==
    LET lower == ToLowerCase(title) IN
    IF Includes(lower, NeedleHelloWorld) THEN
        TopicBranch(acc, hasPrintf /\ Includes(code, NeedleHelloLiteral),
                    20, FbHello, SugHello, 15)
    ELSE IF Includes(lower, NeedleSum) THEN
        TopicBranch(acc, hasScanf /\ hasPrintf, 15, FbSum, SugSum, 10)
    ELSE IF Includes(lower, NeedleFactorial) THEN
        TopicBranch(acc, Includes(code, NeedleFor) \/ Includes(code, NeedleWhile),
                    15, FbFactorial, SugFactorial, 10)
    ELSE IF Includes(lower, NeedleArray) THEN
        TopicBranch(acc, Includes(code, NeedleOpenBracket) /\ Includes(code, NeedleCloseBracket),
                    10, FbArray, SugArray, 15)
    ELSE acc

\* A comment check that says nothing when there are no comments.
CheckCommentsSilent(acc, hasComments) ==
    IF hasComments THEN Add(Push(acc, SugCommentsGood), 5) ELSE acc

\* Code quality checks: the comment bonus.
CheckComments(acc, hasComments) ==
    IF hasComments THEN Add(Push(acc, SugCommentsGood), 5)
    ELSE Push(acc, SugCommentsMissing)

\* A clamp that forgets the upper bound.
ClampScoreNoCeiling(score) == MathMax(0, score)

\* score = Math.max(0, Math.min(100, score))
ClampScore(score) == MathMax(0, MathMin(100, score))

\* The default sentence and the closing remark gated by the clamped score;
\* the feedback text is the two sentences in order.
BuildFeedback(feedback, score) ==
    LET first == IF feedback = "" THEN FbAnalyzed ELSE feedback
        closing == IF score >= 80 THEN FbExcellent
                   ELSE IF score >= 60 THEN FbGood
                   ELSE FbNeedsWork
    IN <<first, closing>>

\* "suggestions.length = 0" written for "=== 0": the list is emptied and the
\* condition is falsy.
EnsureSuggestionsAssign(suggestions) == <<>>

\* if (suggestions.length === 0) suggestions.push(generic)
EnsureSuggestions(suggestions) ==
    IF Len(suggestions) = 0 THEN <<SugGeneric>> ELSE suggestions

\* The locals of analyzeCodeBuiltIn just before the clamp.
AnalysisBeforeClamp(code, problem) ==
    LET hasMainFunction == Includes(code, NeedleIntMain)
        hasIncludeStdio == Includes(code, NeedleIncludeStdio)
        hasReturnStatement == Includes(code, NeedleReturn)
        hasComments == Includes(code, NeedleLineComment) \/ Includes(code, NeedleBlockComment)
        hasPrintf == Includes(code, NeedlePrintf)
        hasScanf == Includes(code, NeedleScanf)
        a1 == CheckMain(AnalysisStart, hasMainFunction)
        a2 == CheckStdio(a1, hasIncludeStdio, hasPrintf, hasScanf)
        a3 == CheckReturn(a2, hasReturnStatement, hasMainFunction)
        a4 == CheckTopic(a3, code, problem.title, hasPrintf, hasScanf)
    IN CheckComments(a4, hasComments)

analyzeCodeBuiltIn(code, problem) ==
    LET acc == AnalysisBeforeClamp(code, problem)
        score == ClampScore(acc.score)
    IN [feedback |-> BuildFeedback(acc.feedback, score),
        suggestions |-> EnsureSuggestions(acc.suggestions),
        score |-> score]

(***************************************************************************)
(* The template bank and generateSampleProblems                            *)
(***************************************************************************)
TestCase(input, expectedOutput) == [input |-> input, expectedOutput |-> expectedOutput]

EasyTemplates ==
    << [title |-> TitleHelloWorldProgram, sampleInput |-> "", sampleOutput |-> "Hello, World!",
        testCases |-> << TestCase("", "Hello, World!") >>],
       [title |-> TitleSumOfTwoNumbers, sampleInput |-> "5 3", sampleOutput |-> "8",
        testCases |-> << TestCase("5 3", "8"), TestCase("10 20", "30"), TestCase("1 1", "2") >>],
       [title |-> TitleEvenOrOdd, sampleInput |-> "4", sampleOutput |-> "Even",
        testCases |-> << TestCase("4", "Even"), TestCase("7", "Odd"), TestCase("100", "Even") >>] >>

MediumTemplates ==
    << [title |-> TitleFactorialCalculator, sampleInput |-> "5", sampleOutput |-> "120",
        testCases |-> << TestCase("5", "120"), TestCase("0", "1"), TestCase("3", "6") >>],
       [title |-> TitleArraySum, sampleInput |-> "5\n1 2 3 4 5", sampleOutput |-> "15",
        testCases |-> << TestCase("5\n1 2 3 4 5", "15"), TestCase("3\n10 20 30", "60"),
                         TestCase("1\n42", "42") >>] >>

HardTemplates ==
    << [title |-> TitlePrimeNumberCheck, sampleInput |-> "17", sampleOutput |-> "Prime",
        testCases |-> << TestCase("17", "Prime"), TestCase("4", "Not Prime"), TestCase("2", "Prime") >>],
       [title |-> TitleBinarySearch, sampleInput |-> "5 7\n1 3 5 7 9", sampleOutput |-> "3",
        testCases |-> << TestCase("5 7\n1 3 5 7 9", "3"), TestCase("5 6\n1 3 5 7 9", "-1"),
                         TestCase("3 1\n1 2 3", "0") >>] >>

\* A counter declared outside the function, so that it runs on from one call
\* to the next: every earlier call has moved it at least one step.
ProblemIdCarried(n) == <<"problem_", n + gn.calls>>

\* The template literal `problem_${n}`.
ProblemId(n) == <<"problem_", n>>

\* One problems.push({...}) of generateSampleProblems.  testCases is kept as
\* an optional value (<<>> for undefined, <<cases>> for an array) because the
\* submit route reads it with ?. ; the templates always carry the array.
\* The description, format and constraint texts are copied through unread.
TemplateProblem(n, topic, template, difficulty, timeLimit, memoryLimit) ==
    [id |-> ProblemId(n),
     title |-> topic \o TitleSeparator \o template.title,
     sampleInput |-> template.sampleInput,
     sampleOutput |-> template.sampleOutput,
     difficulty |-> difficulty,
     timeLimit |-> timeLimit,
     memoryLimit |-> memoryLimit,
     testCases |-> << template.testCases >>]

\* The loops with the template chosen by the running problem number instead
\* of the loop's own i.
generateSampleProblemsRunningIndex(topic, difficulty) ==
    LET easy == [k \in 1..difficulty.easy |->
                    TemplateProblem(k, topic,
                        EasyTemplates[((k - 1) % Len(EasyTemplates)) + 1], "easy", 1, 64)]
        medium == [k \in 1..difficulty.medium |->
                    TemplateProblem(difficulty.easy + k, topic,
                        MediumTemplates[((difficulty.easy + k - 1) % Len(MediumTemplates)) + 1],
                        "medium", 2, 128)]
        hard == [k \in 1..difficulty.hard |->
                    TemplateProblem(difficulty.easy + difficulty.medium + k, topic,
                        HardTemplates[((difficulty.easy + difficulty.medium + k - 1)
                                          % Len(HardTemplates)) + 1], "hard", 5, 256)]
    IN easy \o medium \o hard

\* The three loops; problemId runs on across them, i is 0-based per loop.
generateSampleProblems(topic, difficulty) ==
    LET easy == [k \in 1..difficulty.easy |->
                    TemplateProblem(k, topic,
                        EasyTemplates[((k - 1) % Len(EasyTemplates)) + 1], "easy", 1, 64)]
        medium == [k \in 1..difficulty.medium |->
                    TemplateProblem(difficulty.easy + k, topic,
                        MediumTemplates[((k - 1) % Len(MediumTemplates)) + 1], "medium", 2, 128)]
        hard == [k \in 1..difficulty.hard |->
                    TemplateProblem(difficulty.easy + difficulty.medium + k, topic,
                        HardTemplates[((k - 1) % Len(HardTemplates)) + 1], "hard", 5, 256)]
    IN easy \o medium \o hard

(***************************************************************************)
(* The difficulty-distribution pattern of the generation route:            *)
(*   /(\d+)\s+Easy,\s*(\d+)\s+Medium,\s*(\d+)\s+Hard/i                     *)
(***************************************************************************)
DigitChars == <<"0", "1", "2", "3", "4", "5", "6", "7", "8", "9">>

IsDigit(c) == \E d \in 1..Len(DigitChars) : DigitChars[d] = c
DigitValue(c) == (CHOOSE d \in 1..Len(DigitChars) : DigitChars[d] = c) - 1
\* \s of a JavaScript pattern: blank, tab, line feed, vertical tab, form feed,
\* carriage return and the no-break space U+00A0 (the white space above
\* U+00FF, which \s matches as well, cannot be written in a string here).
IsSpace(c) == c \in {" ", "\t", "\n", "", "\f", "\r", " "}

\* First index at or after i that holds no digit (Len(s) + 1 if none): where
\* a greedy \d+ started at i stops.
DigitsEnd(s, i) ==
    CHOOSE j \in i..(Len(s) + 1) :
        /\ \A k \in i..(j - 1) : IsDigit(s[k])
        /\ j = Len(s) + 1 \/ ~IsDigit(s[j])

\* The same for a greedy run of white space.
SpaceEnd(s, i) ==
    CHOOSE j \in i..(Len(s) + 1) :
        /\ \A k \in i..(j - 1) : IsSpace(s[k])
        /\ j = Len(s) + 1 \/ ~IsSpace(s[j])

\* The literal (given in lower case) stands at index i of s, ignoring case.
LiteralAt(s, i, literal) ==
    /\ i + Len(literal) - 1 <= Len(s)
    /\ \A j \in 1..Len(literal) : ToLowerChar(s[i + j - 1]) = literal[j]

LitEasy == <<"e", "a", "s", "y", ",">>
LitMedium == <<"m", "e", "d", "i", "u", "m", ",">>
LitHard == <<"h", "a", "r", "d">>

\* parseInt of a run of decimal digits.
RECURSIVE parseInt(_)
parseInt(digits) ==
    IF digits = <<>> THEN 0
    ELSE 10 * parseInt(SubSeq(digits, 1, Len(digits) - 1)) + DigitValue(digits[Len(digits)])

\* The pattern with \s* for the first \s+ : "1Easy" is taken for "1 Easy".
MatchAtOptionalSpace(s, i) ==
    LET d1 == DigitsEnd(s, i)
        w1 == SpaceEnd(s, d1)
        w2 == SpaceEnd(s, w1 + Len(LitEasy))
        d2 == DigitsEnd(s, w2)
        w3 == SpaceEnd(s, d2)
        w4 == SpaceEnd(s, w3 + Len(LitMedium))
        d3 == DigitsEnd(s, w4)
        w5 == SpaceEnd(s, d3)
    IN IF /\ d1 > i /\ w1 >= d1 /\ LiteralAt(s, w1, LitEasy)
          /\ d2 > w2 /\ w3 > d2 /\ LiteralAt(s, w3, LitMedium)
          /\ d3 > w4 /\ w5 > d3 /\ LiteralAt(s, w5, LitHard)
       THEN << SubSeq(s, i, d1 - 1), SubSeq(s, w2, d2 - 1), SubSeq(s, w4, d3 - 1) >>
       ELSE <<>>

\* The three captured groups of a match that starts at index i, as
\* <<g1, g2, g3>>, or <<>> when the pattern does not match there.  Each
\* quantifier is greedy and no shorter run can match (the next pattern
\* character differs from the run's class), so the scan is deterministic.
MatchAt(s, i) ==
    LET d1 == DigitsEnd(s, i)
        w1 == SpaceEnd(s, d1)
        w2 == SpaceEnd(s, w1 + Len(LitEasy))
        d2 == DigitsEnd(s, w2)
        w3 == SpaceEnd(s, d2)
        w4 == SpaceEnd(s, w3 + Len(LitMedium))
        d3 == DigitsEnd(s, w4)
        w5 == SpaceEnd(s, d3)
    IN IF /\ d1 > i /\ w1 > d1 /\ LiteralAt(s, w1, LitEasy)
          /\ d2 > w2 /\ w3 > d2 /\ LiteralAt(s, w3, LitMedium)
          /\ d3 > w4 /\ w5 > d3 /\ LiteralAt(s, w5, LitHard)
       THEN << SubSeq(s, i, d1 - 1), SubSeq(s, w2, d2 - 1), SubSeq(s, w4, d3 - 1) >>
       ELSE <<>>

\* String.prototype.match: the leftmost match, <<>> for null.
MatchDistribution(s) ==
    IF \E i \in 1..Len(s) : MatchAt(s, i) # <<>>
    THEN MatchAt(s, CHOOSE i \in 1..Len(s) :
                        /\ MatchAt(s, i) # <<>>
                        /\ \A k \in 1..(i - 1) : MatchAt(s, k) = <<>>)
    ELSE <<>>

\* const difficulty = { easy: parseInt(m[1]), medium: parseInt(m[2]), hard: parseInt(m[3]) }
ParsedDifficulty(m) ==
    [easy |-> parseInt(m[1]), medium |-> parseInt(m[2]), hard |-> parseInt(m[3])]

(***************************************************************************)
(* Bounds and the inputs drawn within them                                 *)
(***************************************************************************)
\* MaxRequests submit requests and MaxGenerateRequests generation requests at
\* most, and MaxArrivals requests of the two routes together; they may overlap
\* in any way.
MaxRequests == 2
MaxGenerateRequests == 2
MaxArrivals == 3
MaxFragments == 5
MaxGenerateCalls == 2
MaxPerDifficulty == 4
MaxUsers == 3
MaxTestCases == 40

Requests == 1..MaxRequests
GenerateRequests == 1..MaxGenerateRequests

\* The session of a request: passport's req.isAuthenticated() and req.user.
Anonymous == [authenticated |-> FALSE, id |-> "", role |-> ""]
Sessions ==
    { Anonymous,
      [authenticated |-> TRUE, id |-> "teacher-1", role |-> "teacher"],
      [authenticated |-> TRUE, id |-> "student-1", role |-> "student"] }

\* randomUUID(): the n-th id drawn for a kind of record; ids never repeat.
AssignmentId(n) == <<"assignment", n>>
SubmissionId(n) == <<"submission", n>>

\* Submitted sources: one that fails the structural pre-check, a complete
\* hello-world program, and a program that has the structure and nothing else.
CodeNoStructure == FragPrintf
CodeHello == FragIncludeStdio \o FragMainOpen \o FragPrintHello \o FragReturn \o FragClose
SubmitCodes == {CodeNoStructure, CodeHello}

\* Request bodies of the submit route.  A field is <<>> when absent and <<v>>
\* when present; AssignmentId(0) is an id no assignment ever has.
SubmitBody(a, i, c) ==
    [assignmentId |-> <<AssignmentId(a)>>, problemIndex |-> <<i>>, code |-> c,
     studentId |-> <<>>, status |-> <<>>, testResults |-> <<>>, score |-> <<>>]

\* A body that also carries the fields the server sets: another student's id,
\* a status, a test result and a score.  The insert schema omits only id and
\* submittedAt, so all four are parsed; ForgedStatusBody has a status outside
\* the enum.
ForgedBody ==
    [SubmitBody(1, 0, <<CodeNoStructure>>) EXCEPT
        !.studentId = <<"student-2">>, !.status = <<"error">>,
        !.testResults = << << [testCase |-> 1, passed |-> TRUE] >> >>,
        !.score = <<100>>]
ForgedStatusBody == [ForgedBody EXCEPT !.status = <<"accepted">>]

SubmitBodies ==
    { SubmitBody(1, 0, <<c>>) : c \in SubmitCodes }
    \cup { SubmitBody(1, i, <<CodeHello>>) : i \in {-1, 1, 2} }
    \cup { SubmitBody(0, 0, <<CodeHello>>), SubmitBody(1, 0, <<>>) }
    \cup { ForgedBody, ForgedStatusBody }

\* Sources that fail the structural pre-check: the one without any of
\* "int main", "#include" and "return", and one for each of the three that
\* lacks it alone.
CodeNoMain == FragIncludeStdio \o FragPrintHello \o FragReturn
CodeNoInclude == FragMainOpen \o FragPrintHello \o FragReturn \o FragClose
CodeNoReturn == FragIncludeStdio \o FragMainOpen \o FragPrintHello \o FragClose
PreCheckCodes == {CodeNoStructure, CodeNoMain, CodeNoInclude, CodeNoReturn}

\* Request bodies with those sources, and one with the complete program.
PreCheckBodies ==
    { SubmitBody(1, 0, <<c>>) : c \in PreCheckCodes }
    \cup { SubmitBody(1, 1, <<CodeHello>>) }

\* Request bodies of the generation route: topic and distribution string.
Topics == { <<"X">> }
WellFormedDistributions ==
    { <<"1", " ", "E", "a", "s", "y", ",", " ", "1", " ", "M", "e", "d", "i", "u", "m", ",",
        " ", "0", " ", "H", "a", "r", "d">>,
      <<"1", "\t", "e", "a", "s", "y", ",", "0", " ", " ", "m", "e", "d", "i", "u", "m", ",",
        "0", " ", "h", "a", "r", "d">>,
      <<"0", " ", "E", "a", "s", "y", ",", " ", "0", " ", "M", "e", "d", "i", "u", "m", ",",
        " ", "0", " ", "H", "a", "r", "d">> }
\* A string that stops after the first count, and one without the white
\* space between a count and its word.
MalformedDistributions ==
    { <<"3", " ", "E", "a", "s", "y">>,
      <<"1", "E", "a", "s", "y", ",", " ", "1", " ", "M", "e", "d", "i", "u", "m", ",",
        " ", "1", " ", "H", "a", "r", "d">> }
DistributionStrings == WellFormedDistributions \cup MalformedDistributions

\* What the provider may send back for a generation request: result.problems
\* of a parseable answer.  Nothing validates it, so a problem may come with an
\* empty testCases array or with none at all.
AIProblem(n, title, sampleOutput, testCases) ==
    [id |-> ProblemId(n), title |-> title, sampleInput |-> "", sampleOutput |-> sampleOutput,
     difficulty |-> "easy", timeLimit |-> 1, memoryLimit |-> 64, testCases |-> testCases]
\* A testCases value that is no array ({} here; a string or a number behaves
\* alike): an optional value holds one element, this one is told by its two.
NoArray == <<"object", "{}">>
IsNoArray(testCases) == Len(testCases) = 2

AIProblemLists ==
    { << AIProblem(1, TitleArraySum, "15", << <<TestCase("1\n42", "42")>> >>),
         AIProblem(2, TitleEvenOrOdd, "Even", << <<>> >>) >>,
      << AIProblem(1, TitleHelloWorldProgram, "Hello, World!", <<>>),
         AIProblem(2, TitleEvenOrOdd, "Even", NoArray) >> }

\* What the provider may send back for an analysis request, after JSON.parse:
\* score is absent, a number, or a string that is no number; suggestions is
\* absent or an array.
ScoreAbsent == [kind |-> "absent", n |-> 0]
ScoreText == [kind |-> "text", n |-> 0]
ScoreNumber(n) == [kind |-> "number", n |-> n]
AIAnalysisResult(suggestions, score) ==
    [feedback |-> <<"Looks fine.">>, suggestions |-> suggestions, score |-> score]
AIAnalysisResults ==
    { AIAnalysisResult(<<>>, ScoreAbsent),
      AIAnalysisResult(<< <<"Use a loop.">> >>, ScoreText),
      AIAnalysisResult(<< <<"Use a loop.">> >>, ScoreNumber(-5)),
      AIAnalysisResult(<<>>, ScoreNumber(50)),
      AIAnalysisResult(<< <<>> >>, ScoreNumber(150)) }

(***************************************************************************)
(* MemStorage                                                              *)
(***************************************************************************)
\* Map.get: <<>> for undefined, <<record>> otherwise.
getAssignment(id) == IF id \in DOMAIN assignments THEN <<assignments[id]>> ELSE <<>>
getSubmission(id) == IF id \in DOMAIN submissions THEN <<submissions[id]>> ELSE <<>>

\* An id that was handed out before.
StaleSubmissionId == SubmissionId(1)

\* The id randomUUID() returns: one no stored record of the kind carries.
FreshAssignmentId == AssignmentId(Cardinality(DOMAIN assignments) + 1)
FreshSubmissionId == SubmissionId(Cardinality(DOMAIN submissions) + 1)

\* An id computed from the submission's key instead of drawn afresh.
KeyedSubmissionId(insertSubmission) ==
    <<"submission", insertSubmission.studentId, insertSubmission.assignmentId,
      insertSubmission.problemIndex>>

\* const id = randomUUID() of createSubmission
NewSubmissionId(insertSubmission) == FreshSubmissionId

\* createSubmission: the stored record is the insert record plus the id
\* (submittedAt, a clock reading, is left out).
SubmissionRecord(insertSubmission) ==
    [id |-> NewSubmissionId(insertSubmission),
     studentId |-> insertSubmission.studentId,
     assignmentId |-> insertSubmission.assignmentId,
     problemIndex |-> insertSubmission.problemIndex,
     code |-> insertSubmission.code,
     status |-> insertSubmission.status,
     testResults |-> insertSubmission.testResults,
     score |-> insertSubmission.score]

\* A map rebuilt around the new entry alone.
MapSetAlone(map, id, value) == [k \in {id} |-> value]

\* this.submissions.set(id, submission)
MapSet(map, id, value) == [k \in DOMAIN map \cup {id} |-> IF k = id THEN value ELSE map[k]]

(***************************************************************************)
(* analyzeCode in AI mode: what it returns for a parsed provider answer    *)
(***************************************************************************)
\* result.score || 0 : absent, 0 and NaN are falsy; a non-empty string is not.
\* Math.min(100, x) of a string that is no number is NaN.
ScoreOrZero(raw) ==
    IF raw.kind = "absent" THEN 0
    ELSE IF raw.kind = "text" THEN NaN
    ELSE raw.n

analyzeCodeAI(result) ==
    [feedback |-> result.feedback,
     suggestions |-> IF result.suggestions = <<>> THEN <<>> ELSE result.suggestions[1],
     score |-> MathMax(0, MathMin(100, ScoreOrZero(result.score)))]

(***************************************************************************)
(* POST /api/submissions                                                   *)
(***************************************************************************)
\* The locals of the handler before the inner try block runs.
InitialLocals == [status |-> "passed", score |-> 100, testResults |-> <<>>]

\* A request that has not arrived yet.  pending is the answer a suspended
\* handler will send when its createSubmission call has resolved; catching
\* names the catch block that will run when the handler resumes after a
\* createSubmission call that rejected ("" when there is none).
IdleRequest ==
    [pc |-> "idle", session |-> Anonymous, body |-> <<>>, assignment |-> <<>>,
     testResults |-> InitialLocals.testResults, status |-> InitialLocals.status,
     score |-> InitialLocals.score, analysis |-> <<>>,
     pending |-> <<>>, catching |-> "", response |-> [status |-> 0],
     analyzeCalls |-> 0, createCalls |-> 0, created |-> {}]

\* How many requests, of either route, the server has received.
Arrivals ==
    Cardinality({ r \in Requests : req[r].pc # "idle" })
    + Cardinality({ g \in GenerateRequests : gen[g].pc # "idle" })

\* res.status(code).json({ message }) and return
Reject(r, code, message) ==
    req' = [req EXCEPT ![r].pc = "done", ![r].response = [status |-> code, message |-> message]]

\* The status enum of the submissions table.
SubmissionStatuses == {"pending", "passed", "failed", "error"}

\* insertSubmissionSchema.parse succeeds iff the three required fields are
\* there and a status, when given, is one of the enum.
ParsesAsSubmission(body) ==
    /\ body.assignmentId # <<>> /\ body.problemIndex # <<>> /\ body.code # <<>>
    /\ body.status # <<>> => body.status[1] \in SubmissionStatuses

\* submissionData: the parsed body, { ...req.body, studentId: req.user.id }.
\* status, testResults and score are what the body gave (<<>> when absent).
SubmissionData(r) ==
    [studentId |-> req[r].session.id,
     assignmentId |-> req[r].body[1].assignmentId[1],
     problemIndex |-> req[r].body[1].problemIndex[1],
     code |-> req[r].body[1].code[1],
     status |-> req[r].body[1].status,
     testResults |-> req[r].body[1].testResults,
     score |-> req[r].body[1].score]

\* An index lookup that counts a negative index from the end, as Array.at does.
ProblemAtWrapping(problems, index) ==
    IF index >= 0 /\ index < Len(problems) THEN <<problems[index + 1]>>
    ELSE IF index < 0 /\ -index <= Len(problems) THEN <<problems[Len(problems) + index + 1]>>
    ELSE <<>>

\* problems[problemIndex] of a JavaScript array: <<>> for undefined.
ProblemAt(problems, index) ==
    IF index >= 0 /\ index < Len(problems) THEN <<problems[index + 1]>> ELSE <<>>

\* The problem the request resolved.
ResolvedProblem(r) ==
    ProblemAt(req[r].assignment[1].problems, SubmissionData(r).problemIndex)[1]

\* problem.testCases?.map(...) || [] : the cases mapped over, none if undefined.
CasesOf(problem) == IF Len(problem.testCases) = 1 THEN problem.testCases[1] ELSE <<>>

\* The fractions passedCount / length, in lowest terms, for which the double
\* (passedCount / length) * 100 falls just below the half it equals exactly
\* (23 / 40 * 100 is 57.49999999999999).  A quotient is the same double
\* whatever multiple of the fraction was divided, and the exact value is a
\* half only for the lowest-terms denominators 8, 40 and 200.
HalvesRoundedDown == { <<23, 40>>, <<29, 200>>, <<57, 200>>, <<113, 200>> }

\* Math.round((passedCount / length) * 100): NaN for 0/0; else the nearest
\* integer to the double, halves up, which is the nearest integer to the
\* exact value except on the fractions above.
RoundedPercent(passedCount, length) ==
    IF length = 0 THEN NaN
    ELSE LET nearest == (200 * passedCount + length) \div (2 * length)
         IN IF \E f \in HalvesRoundedDown : passedCount * f[2] = length * f[1]
            THEN nearest - 1 ELSE nearest

\* A pre-check failure scored 25.
PreCheckFailScoreHigher == 20 + 5

\* score = 20 of the pre-check failure branch
PreCheckFailScore == 20

\* The structural pre-check of the submit route.
PreCheckPasses(code) ==
    /\ Includes(code, NeedleIntMain)
    /\ Includes(code, NeedleInclude)
    /\ Includes(code, NeedleReturn)

\* What the inner try block leaves in the locals up to the call of analyzeCode.
Evaluated(threw, status, score, testResults) ==
    [threw |-> threw, status |-> status, score |-> score, testResults |-> testResults]

\* A simulation that reports each test case's own expectedOutput as expected.
SimulatedReportingExpected(code, problem, passes) ==
    IF ~PreCheckPasses(code) THEN
        Evaluated(FALSE, "failed", PreCheckFailScore,
                  << [testCase |-> 1, passed |-> FALSE,
                      error |-> "Missing required C structure"] >>)
    ELSE IF IsNoArray(problem.testCases) THEN
        Evaluated(TRUE, InitialLocals.status, InitialLocals.score, InitialLocals.testResults)
    ELSE
        LET cases == CasesOf(problem)
            results == [k \in 1..Len(cases) |->
                           [testCase |-> k, passed |-> passes[k],
                            output |-> problem.sampleOutput,
                            expected |-> cases[k].expectedOutput]]
            passedCount == Cardinality({k \in 1..Len(cases) : passes[k]})
            score == RoundedPercent(passedCount, Len(results))
        IN Evaluated(FALSE, IF NumGE(score, 60) THEN "passed" ELSE "failed", score, results)

\* The pre-check and the simulation: testResults, status and score, given
\* what Math.random() decided for each case (passes[k] is the outcome of case
\* k).  When testCases is no array, problem.testCases?.map is no function and
\* the call throws inside the try block: the locals keep their initial values
\* and the catch (aiError) block runs.
Simulated(code, problem, passes) ==
    IF ~PreCheckPasses(code) THEN
        Evaluated(FALSE, "failed", PreCheckFailScore,
                  << [testCase |-> 1, passed |-> FALSE,
                      error |-> "Missing required C structure"] >>)
    ELSE IF IsNoArray(problem.testCases) THEN
        Evaluated(TRUE, InitialLocals.status, InitialLocals.score, InitialLocals.testResults)
    ELSE
        LET cases == CasesOf(problem)
            results == [k \in 1..Len(cases) |->
                           [testCase |-> k, passed |-> passes[k],
                            output |-> problem.sampleOutput,
                            expected |-> problem.sampleOutput]]
            passedCount == Cardinality({k \in 1..Len(cases) : passes[k]})
            score == RoundedPercent(passedCount, Len(results))
        IN Evaluated(FALSE, IF NumGE(score, 60) THEN "passed" ELSE "failed", score, results)

\* score: Math.min(score, aiAnalysis.score)
MergedScore(score, analysisScore) == MathMin(score, analysisScore)

\* The value the body gave for a field, or the server's when it gave none.
BodyOr(given, computed) == IF given = <<>> THEN computed ELSE given[1]

\* The object literal with the spread written last:
\* { status, testResults, score, ...submissionData }.
InsertSubmissionSpreadLast(r, score) ==
    [SubmissionData(r) EXCEPT !.status = BodyOr(@, req[r].status),
                              !.testResults = BodyOr(@, req[r].testResults),
                              !.score = BodyOr(@, score)]

\* The record handed to createSubmission:
\* { ...submissionData, status, testResults, score }.
InsertSubmission(r, score) ==
    [SubmissionData(r) EXCEPT !.status = req[r].status,
                              !.testResults = req[r].testResults,
                              !.score = score]

FallbackFeedback == <<"Code submitted successfully. Basic validation completed.">>

\* Entry of the handler up to its first await: the authorization gate, the
\* schema parse, and the call of storage.getAssignment, which reads the map
\* when called.  The body is not looked at before the gate has passed.
SubmitBegin(r, session, body) ==
    /\ req[r].pc = "idle"
    /\ \A q \in 1..(r - 1) : req[q].pc # "idle"
    /\ Arrivals < MaxArrivals
    /\ IF ~session.authenticated \/ session.role # "student" THEN
           req' = [req EXCEPT ![r].pc = "done", ![r].session = session,
                              ![r].response = [status |-> 403,
                                               message |-> "Access denied. Students only."]]
       ELSE IF ~ParsesAsSubmission(body) THEN
           \* the ZodError lands in the outer catch
           req' = [req EXCEPT ![r].pc = "done", ![r].session = session, ![r].body = <<body>>,
                              ![r].response = [status |-> 500,
                                               message |-> "Failed to submit code"]]
       ELSE
           req' = [req EXCEPT ![r].pc = "getAssignment", ![r].session = session,
                              ![r].body = <<body>>,
                              ![r].assignment = getAssignment(body.assignmentId[1])]
    /\ UNCHANGED <<openai, assignments, submissions, gen, an, gn, users, tally>>

\* A try block that derives the status again from the merged score.
PersistRestating(r, aiAnalysis) ==
    LET merged == MergedScore(req[r].score, aiAnalysis.score)
        submission == SubmissionRecord(
                          [InsertSubmission(r, merged) EXCEPT
                              !.status = IF NumGE(merged, 60) THEN "passed" ELSE "failed"])
    IN /\ submissions' = MapSet(submissions, submission.id, submission)
       /\ req' = [req EXCEPT ![r].pc = "respond",
                             ![r].analysis = <<aiAnalysis>>,
                             ![r].createCalls = @ + 1,
                             ![r].created = @ \cup {submission.id},
                             ![r].pending = <<[status |-> 200, submission |-> submission,
                                               testResults |-> req[r].testResults,
                                               feedback |-> aiAnalysis.feedback,
                                               suggestions |-> aiAnalysis.suggestions]>>]

\* A try block that looks the assignment up again before it creates the
\* Submission and answers 404 when it is gone or inactive by then.
PersistRechecking(r, aiAnalysis) ==
    LET stored == getAssignment(SubmissionData(r).assignmentId)
        submission == SubmissionRecord(InsertSubmission(r, MergedScore(req[r].score, aiAnalysis.score)))
    IN IF stored = <<>> \/ ~stored[1].isActive
       THEN /\ req' = [req EXCEPT ![r].pc = "done", ![r].analysis = <<aiAnalysis>>,
                                  ![r].response = [status |-> 404,
                                                   message |-> "Assignment not found or inactive"]]
            /\ UNCHANGED submissions
       ELSE /\ submissions' = MapSet(submissions, submission.id, submission)
            /\ req' = [req EXCEPT ![r].pc = "respond",
                                  ![r].analysis = <<aiAnalysis>>,
                                  ![r].createCalls = @ + 1,
                                  ![r].created = @ \cup {submission.id},
                                  ![r].pending = <<[status |-> 200, submission |-> submission,
                                                    testResults |-> req[r].testResults,
                                                    feedback |-> aiAnalysis.feedback,
                                                    suggestions |-> aiAnalysis.suggestions]>>]

\* The try block after analyzeCode returned aiAnalysis: the call of
\* createSubmission with the merged score, which writes the map when called.
\* The handler is suspended on the await; the answer it will send is pending.
Persist(r, aiAnalysis) ==
    LET submission == SubmissionRecord(InsertSubmission(r, MergedScore(req[r].score, aiAnalysis.score)))
    IN /\ submissions' = MapSet(submissions, submission.id, submission)
       /\ req' = [req EXCEPT ![r].pc = "respond",
                             ![r].analysis = <<aiAnalysis>>,
                             ![r].createCalls = @ + 1,
                             ![r].created = @ \cup {submission.id},
                             ![r].pending = <<[status |-> 200, submission |-> submission,
                                               testResults |-> req[r].testResults,
                                               feedback |-> aiAnalysis.feedback,
                                               suggestions |-> aiAnalysis.suggestions]>>]

\* No catch around the try block: its error reaches the outer catch.
PropagateAnalysisError(r, analysis) ==
    /\ req' = [req EXCEPT ![r].pc = "done", ![r].analysis = analysis, ![r].catching = "",
                          ![r].response = [status |-> 500, message |-> "Failed to submit code"]]
    /\ UNCHANGED submissions

\* The catch (aiError) block: the call of createSubmission with the locals
\* as they are (the unmerged score); the answer with the fallback feedback is
\* pending.
PersistFallback(r, analysis) ==
    LET submission == SubmissionRecord(InsertSubmission(r, req[r].score))
    IN /\ submissions' = MapSet(submissions, submission.id, submission)
       /\ req' = [req EXCEPT ![r].pc = "respond",
                             ![r].analysis = analysis,
                             ![r].catching = "",
                             ![r].createCalls = @ + 1,
                             ![r].created = @ \cup {submission.id},
                             ![r].pending = <<[status |-> 200, submission |-> submission,
                                               testResults |-> req[r].testResults,
                                               feedback |-> FallbackFeedback,
                                               suggestions |-> <<>>]>>]

\* The await of createSubmission resolved: res.json(...) with what is pending.
Respond(r) ==
    /\ req[r].pc = "respond"
    /\ req' = [req EXCEPT ![r].pc = "done", ![r].response = req[r].pending[1],
                          ![r].pending = <<>>]
    /\ UNCHANGED <<openai, assignments, submissions, gen, an, gn, users, tally>>

\* The outer catch: console.error and res.status(500).
AnswerInternalError(r) ==
    req' = [req EXCEPT ![r].pc = "done", ![r].catching = "",
                       ![r].response = [status |-> 500, message |-> "Failed to submit code"]]

\* A call of createSubmission that rejects: nothing is written, the handler
\* is suspended on the await, and the named catch block runs when it resumes.
CreateRejected(r, analysis, catching) ==
    req' = [req EXCEPT ![r].analysis = analysis,
                       ![r].createCalls = @ + 1,
                       ![r].catching = catching]

\* The simulation of request r throws: the code passes the pre-check and the
\* resolved problem's testCases is no array.
SimulationThrows(r) ==
    /\ req[r].assignment # <<>> /\ req[r].assignment[1].isActive
    /\ ProblemAt(req[r].assignment[1].problems, SubmissionData(r).problemIndex) # <<>>
    /\ \E passes \in [1..Len(CasesOf(ResolvedProblem(r))) -> BOOLEAN] :
          Simulated(SubmissionData(r).code, ResolvedProblem(r), passes).threw

\* After getAssignment resolved: the assignment and problem gates, then the
\* pre-check and the simulation, up to the call of analyzeCode; or, when the
\* simulation throws, the catch (aiError) block up to its createSubmission
\* call, with analyzeCode never called.
SubmitResolve(r) ==
    /\ req[r].pc = "getAssignment" /\ req[r].catching = ""
    /\ IF req[r].assignment = <<>> \/ ~req[r].assignment[1].isActive THEN
           Reject(r, 404, "Assignment not found or inactive") /\ UNCHANGED submissions
       ELSE IF ProblemAt(req[r].assignment[1].problems, SubmissionData(r).problemIndex) = <<>> THEN
           Reject(r, 400, "Invalid problem index") /\ UNCHANGED submissions
       ELSE IF SimulationThrows(r) THEN
           PersistFallback(r, <<>>)
       ELSE
           /\ \E passes \in [1..Len(CasesOf(ResolvedProblem(r))) -> BOOLEAN] :
                 LET sim == Simulated(SubmissionData(r).code, ResolvedProblem(r), passes) IN
                 req' = [req EXCEPT ![r].pc = "analyze",
                                    ![r].testResults = sim.testResults,
                                    ![r].status = sim.status,
                                    ![r].score = sim.score,
                                    ![r].analyzeCalls = @ + 1]
           /\ UNCHANGED submissions
    /\ UNCHANGED <<openai, assignments, gen, an, gn, users, tally>>

\* analyzeCode without a client: the built-in analyzer's result.
AnalyzeBuiltInReturns(r) ==
    /\ req[r].pc = "analyze" /\ req[r].catching = ""
    /\ ~openai
    /\ Persist(r, analyzeCodeBuiltIn(SubmissionData(r).code, ResolvedProblem(r)))
    /\ UNCHANGED <<openai, assignments, gen, an, gn, users, tally>>

\* analyzeCode with a client: the provider answered with parseable JSON.
AnalyzeAIReturns(r) ==
    /\ req[r].pc = "analyze" /\ req[r].catching = ""
    /\ openai
    /\ \E result \in AIAnalysisResults : Persist(r, analyzeCodeAI(result))
    /\ UNCHANGED <<openai, assignments, gen, an, gn, users, tally>>

\* analyzeCode with a client: the call or the parse failed and it threw.
AnalyzeAIThrows(r) ==
    /\ req[r].pc = "analyze" /\ req[r].catching = ""
    /\ openai
    /\ PersistFallback(r, <<>>)
    /\ UNCHANGED <<openai, assignments, gen, an, gn, users, tally>>

\* What the provider does for an analysis request: the call fails or its
\* answer cannot be parsed, or JSON.parse gives the result.
AnalysisFailure == [failed |-> TRUE, result |-> <<>>]
AnalysisAnswer(result) == [failed |-> FALSE, result |-> <<result>>]
AnalysisProviders ==
    { AnalysisFailure } \cup { AnalysisAnswer(result) : result \in AIAnalysisResults }

\* analyzeCode without the test for a missing client.
analyzeCodeIgnoringClient(code, problem, provider) ==
    IF provider.failed THEN <<>> ELSE <<analyzeCodeAI(provider.result[1])>>

\* analyzeCode: <<result>> when it returns, <<>> when it throws.  Without a
\* client it returns what analyzeCodeBuiltIn returns and the provider is not
\* asked.
analyzeCode(code, problem, provider) ==
    IF ~openai THEN <<analyzeCodeBuiltIn(code, problem)>>
    ELSE IF provider.failed THEN <<>>
    ELSE <<analyzeCodeAI(provider.result[1])>>

\* What the provider may do during an analysis request: without a client no
\* provider call is made, and one outcome stands for all.
AnalysisProvidersConsulted == IF openai THEN AnalysisProviders ELSE {AnalysisFailure}

\* What analyzeCode may return for request r.
AnalysisResults(r) ==
    { returned[1] :
        returned \in { analyzeCode(SubmissionData(r).code, ResolvedProblem(r), provider) :
                          provider \in AnalysisProvidersConsulted } \ { <<>> } }

(***************************************************************************)
(* Storage calls that reject.  MemStorage never does; the route is written *)
(* against IStorage, whose calls are awaited inside try blocks.  A call    *)
(* that rejects has written nothing.                                       *)
(***************************************************************************)
\* await storage.getAssignment(...) rejected: the outer catch answers 500.
GetAssignmentRejects(r) ==
    /\ req[r].pc = "getAssignment" /\ req[r].catching = ""
    /\ AnswerInternalError(r)
    /\ UNCHANGED <<openai, assignments, submissions, gen, an, gn, users, tally>>

\* analyzeCode returned, and the call of createSubmission in the try block
\* rejects: the handler is suspended with the catch (aiError) block to run.
CreateRejectsAfterAnalysis(r) ==
    /\ req[r].pc = "analyze" /\ req[r].catching = ""
    /\ \E aiAnalysis \in AnalysisResults(r) : CreateRejected(r, <<aiAnalysis>>, "aiError")
    /\ UNCHANGED <<openai, assignments, submissions, gen, an, gn, users, tally>>

\* The catch (aiError) block after the rejection in the try block: its call
\* of createSubmission writes the map.
CatchPersists(r) ==
    /\ req[r].catching = "aiError"
    /\ PersistFallback(r, req[r].analysis)
    /\ UNCHANGED <<openai, assignments, gen, an, gn, users, tally>>

\* The catch (aiError) block after the rejection in the try block: its call
\* of createSubmission rejects as well, with the outer catch to run.
CatchRejects(r) ==
    /\ req[r].catching = "aiError"
    /\ CreateRejected(r, req[r].analysis, "error")
    /\ UNCHANGED <<openai, assignments, submissions, gen, an, gn, users, tally>>

\* analyzeCode threw, and the call of createSubmission in the catch
\* (aiError) block rejects, with the outer catch to run.
CreateRejectsAfterThrow(r) ==
    /\ req[r].pc = "analyze" /\ req[r].catching = ""
    /\ openai
    /\ CreateRejected(r, <<>>, "error")
    /\ UNCHANGED <<openai, assignments, submissions, gen, an, gn, users, tally>>

\* The simulation threw, and the call of createSubmission in the catch
\* (aiError) block rejects, with the outer catch to run.
CreateRejectsAfterSimulationThrow(r) ==
    /\ req[r].pc = "getAssignment" /\ req[r].catching = ""
    /\ SimulationThrows(r)
    /\ CreateRejected(r, <<>>, "error")
    /\ UNCHANGED <<openai, assignments, submissions, gen, an, gn, users, tally>>

\* The outer catch after a createSubmission call of the catch (aiError)
\* block rejected.
CatchError(r) ==
    /\ req[r].catching = "error"
    /\ AnswerInternalError(r)
    /\ UNCHANGED <<openai, assignments, submissions, gen, an, gn, users, tally>>

(***************************************************************************)
(* POST /api/assignments/generate and MemStorage.updateAssignment          *)
(***************************************************************************)
\* createAssignment as the route calls it (title, description, timeLimit and
\* dueDate are stored and never read by a route's logic; left out).
AssignmentRecord(teacherId, problems) ==
    [id |-> FreshAssignmentId, teacherId |-> teacherId, problems |-> problems, isActive |-> TRUE]

\* What the provider does for a generation request: the call fails or its
\* answer cannot be parsed, or JSON.parse gives an object whose "problems"
\* field is absent (<<>>) or the given list.
ProviderFailure == [failed |-> TRUE, problems |-> <<>>]
ProviderAnswer(problems) == [failed |-> FALSE, problems |-> problems]
GenerateProviders ==
    { ProviderFailure, ProviderAnswer(<<>>) }
    \cup { ProviderAnswer(<<problems>>) : problems \in AIProblemLists }

\* The difficulty counts generateAssignment is called with.
Difficulties == [easy : 0..MaxPerDifficulty, medium : 0..MaxPerDifficulty, hard : 0..MaxPerDifficulty]

\* A catch block that answers from the template bank.
generateAssignmentFallingBack(topic, difficulty, provider) ==
    IF ~openai \/ provider.failed
    THEN [threw |-> FALSE, problems |-> <<generateSampleProblems(topic, difficulty)>>]
    ELSE [threw |-> FALSE, problems |-> provider.problems]

\* generateAssignment: the template bank without a client; with one, the
\* provider's result.problems as it came, or an Error when the call or the
\* parse threw.  problems is <<>> for undefined.
generateAssignment(topic, difficulty, provider) ==
    IF ~openai
    THEN [threw |-> FALSE, problems |-> <<generateSampleProblems(topic, difficulty)>>]
    ELSE IF provider.failed
    THEN [threw |-> TRUE, problems |-> <<>>]
    ELSE [threw |-> FALSE, problems |-> provider.problems]

\* The state of gn before any call.
NoGenerateCall ==
    [calls |-> 0, topic |-> <<>>, difficulty |-> [easy |-> 0, medium |-> 0, hard |-> 0],
     provider |-> ProviderFailure, outcome |-> <<>>]

\* The answer of a generation request, as gen records it.
\* threw: generateAssignment threw; providerFailed: a client is configured and
\* the provider call of this request failed or sent what cannot be parsed.
GenerateAnswer(status, assignment, threw, providerFailed) ==
    [status |-> status, assignment |-> assignment, threw |-> threw,
     providerFailed |-> providerFailed]

\* A generation request whose handler has run up to pc: its session, how many
\* times it called generateAssignment, and the difficultyDistribution it read
\* from the body when that is one of the malformed strings (<<>> otherwise).
\* generating holds the arguments of the generateAssignment call a suspended
\* handler awaits; pending is the answer a handler suspended on
\* createAssignment will send.
Answering(pc, session, difficultyDistribution, generateCalls, answer) ==
    [pc |-> pc,
     status |-> answer.status, assignment |-> answer.assignment, threw |-> answer.threw,
     providerFailed |-> answer.providerFailed,
     session |-> session,
     malformed |-> IF difficultyDistribution \in MalformedDistributions
                   THEN <<difficultyDistribution>> ELSE <<>>,
     generateCalls |-> generateCalls,
     generating |-> <<>>,
     pending |-> <<>>]

\* A generation request that has not arrived yet.
NoGenerateRequest ==
    Answering("idle", Anonymous, <<>>, 0, GenerateAnswer(0, <<>>, FALSE, FALSE))

\* The call of createAssignment, which writes the map when called; the
\* handler is suspended on the await and has not answered (status 0).
Create(g, problems, providerFailed) ==
    LET assignment == AssignmentRecord(gen[g].session.id, problems) IN
    /\ assignments' = MapSet(assignments, assignment.id, assignment)
    /\ gen' = [gen EXCEPT ![g].pc = "createAssignment",
                          ![g].generating = <<>>,
                          ![g].providerFailed = providerFailed,
                          ![g].pending = <<GenerateAnswer(200, <<assignment.id>>, FALSE,
                                                          providerFailed)>>]

\* The await of createAssignment resolved: res.json({ assignment, problems }).
GenerateRespond(g) ==
    /\ gen[g].pc = "createAssignment"
    /\ gen' = [gen EXCEPT ![g].pc = "done",
                          ![g].status = gen[g].pending[1].status,
                          ![g].assignment = gen[g].pending[1].assignment,
                          ![g].pending = <<>>]
    /\ UNCHANGED <<openai, assignments, submissions, req, an, gn, users, tally>>

\* The handler of request g from its entry to its answer (403, 400) or to its
\* call of generateAssignment, on whose await it is suspended.  Requests are
\* numbered in the order they arrive; a request may arrive while the handlers
\* of earlier ones are suspended.  The body is not looked at before the gate
\* has passed.
GenerateRoute(g, session, topic, difficultyDistribution) ==
    /\ gen[g].pc = "idle"
    /\ \A h \in 1..(g - 1) : gen[h].pc # "idle"
    /\ Arrivals < MaxArrivals
    /\ IF ~session.authenticated \/ session.role # "teacher" THEN
           gen' = [gen EXCEPT ![g] = Answering("done", session, <<>>, 0,
                                               GenerateAnswer(403, <<>>, FALSE, FALSE))]
       ELSE IF MatchDistribution(difficultyDistribution) = <<>> THEN
           gen' = [gen EXCEPT ![g] = Answering("done", session, difficultyDistribution, 0,
                                               GenerateAnswer(400, <<>>, FALSE, FALSE))]
       ELSE
           gen' = [gen EXCEPT ![g] =
                      [Answering("generateAssignment", session, difficultyDistribution, 1,
                                 GenerateAnswer(0, <<>>, FALSE, FALSE))
                          EXCEPT !.generating =
                              <<[topic |-> topic,
                                 difficulty |->
                                     ParsedDifficulty(MatchDistribution(difficultyDistribution))]>>]]
    /\ UNCHANGED <<openai, assignments, submissions, req, an, gn, users, tally>>

\* What the generateAssignment call of request g gives when the provider does
\* as told.
Generated(g, provider) ==
    generateAssignment(gen[g].generating[1].topic, gen[g].generating[1].difficulty, provider)

\* The await of generateAssignment settled.  provider is what the provider
\* did when a client is configured.  When generateAssignment threw, the catch
\* answers 500; a parseable answer without a "problems" field makes it return
\* undefined, and problems.length then throws into the catch; otherwise
\* createAssignment is called.
GenerateResolve(g, provider) ==
    /\ gen[g].pc = "generateAssignment"
    /\ IF Generated(g, provider).threw \/ Generated(g, provider).problems = <<>> THEN
           /\ gen' = [gen EXCEPT ![g].pc = "done",
                                 ![g].status = 500,
                                 ![g].threw = Generated(g, provider).threw,
                                 ![g].providerFailed = openai /\ provider.failed,
                                 ![g].generating = <<>>]
           /\ UNCHANGED assignments
       ELSE Create(g, Generated(g, provider).problems[1], openai /\ provider.failed)
    /\ UNCHANGED <<openai, submissions, req, an, gn, users, tally>>

\* The await of generateAssignment resolved with problems, and the call of
\* createAssignment rejects: nothing is written, the handler is suspended on
\* the await, and the catch block runs when it resumes.
CreateAssignmentRejects(g, provider) ==
    /\ gen[g].pc = "generateAssignment"
    /\ ~Generated(g, provider).threw /\ Generated(g, provider).problems # <<>>
    /\ gen' = [gen EXCEPT ![g].pc = "catch", ![g].generating = <<>>]
    /\ UNCHANGED <<openai, assignments, submissions, req, an, gn, users, tally>>

\* The catch block after createAssignment rejected: console.error and
\* res.status(500).
GenerateCatch(g) ==
    /\ gen[g].pc = "catch"
    /\ gen' = [gen EXCEPT ![g].pc = "done", ![g].status = 500]
    /\ UNCHANGED <<openai, assignments, submissions, req, an, gn, users, tally>>

\* What the provider may do during a generation request: without a client no
\* provider call is made, and one outcome stands for all.
ProvidersConsulted == IF openai THEN GenerateProviders ELSE {ProviderFailure}

\* The topics generateAssignment is called with.
GeneratorTopics == Topics \cup { <<"R", "e", "c", "u", "r", "s", "i", "o", "n">> }

\* One call of generateAssignment on drawn arguments.
GenerateCall ==
    /\ gn.calls < MaxGenerateCalls
    /\ \E topic \in GeneratorTopics, difficulty \in Difficulties, provider \in GenerateProviders :
          gn' = [calls |-> gn.calls + 1, topic |-> topic, difficulty |-> difficulty,
                 provider |-> provider,
                 outcome |-> <<generateAssignment(topic, difficulty, provider)>>]
    /\ UNCHANGED <<openai, assignments, submissions, req, gen, an, users, tally>>

\* storage.updateAssignment(id, { isActive }): the stored record with the
\* given field replaced; nothing happens for an unknown id.
UpdateAssignment(id, isActive) ==
    /\ id \in DOMAIN assignments
    /\ assignments' = [assignments EXCEPT ![id].isActive = isActive]
    /\ UNCHANGED <<openai, submissions, req, gen, an, gn, users, tally>>

\* The problem list a teacher's edit puts in the place of the generated one:
\* the first easy template with another sample output.
ReplacementProblems ==
    << [TemplateProblem(1, <<"X">>, EasyTemplates[1], "easy", 1, 64) EXCEPT
           !.sampleOutput = "Hello!"] >>

\* storage.updateAssignment(id, { problems }): the stored record is replaced
\* by a copy with the new list; a record read earlier keeps the old one.
ReplaceProblems(id, problems) ==
    /\ id \in DOMAIN assignments
    /\ assignments' = [assignments EXCEPT ![id].problems = problems]
    /\ UNCHANGED <<openai, submissions, req, gen, an, gn, users, tally>>

\* The partial records updateSubmission is called with.
SubmissionUpdates == { [status |-> "error"], [score |-> 0] }

\* storage.updateSubmission(id, updateData): { ...submission, ...updateData }
\* is stored in the place of the record; nothing happens for an unknown id.
\* No registered route calls it, so it is no step of the routes.
UpdateSubmission(id, updateData) ==
    /\ id \in DOMAIN submissions
    /\ submissions' = [submissions EXCEPT ![id] =
                          [f \in DOMAIN @ |-> IF f \in DOMAIN updateData
                                              THEN updateData[f] ELSE @[f]]]
    /\ UNCHANGED <<openai, assignments, req, gen, an, gn, users, tally>>

(***************************************************************************)
(* MemStorage.users                                                        *)
(***************************************************************************)
UserId(n) == <<"user", n>>
FreshUserId == UserId(Cardinality(DOMAIN users) + 1)

\* The InsertUser records createUser is called with (password and name are
\* stored and never read by the repository; left out).
InsertUsers ==
    [username : {"ann", "bob"}, email : {"ann@x.org", "bob@x.org"}, role : {"teacher", "student"}]

\* const user = { ...insertUser, id, createdAt } (createdAt, a clock reading,
\* is left out).
UserRecord(insertUser) ==
    [id |-> FreshUserId, username |-> insertUser.username, email |-> insertUser.email,
     role |-> insertUser.role]

\* createUser: the record is stored under a fresh id; the stored users are
\* not looked at.
CreateUser(insertUser) ==
    /\ Cardinality(DOMAIN users) < MaxUsers
    /\ users' = MapSet(users, FreshUserId, UserRecord(insertUser))
    /\ UNCHANGED <<openai, assignments, submissions, req, gen, an, gn, tally>>

(***************************************************************************)
(* One call of the built-in analyzer on a drawn input                      *)
(***************************************************************************)
Fragments ==
    << FragIncludeStdio, FragIncludeMath, FragMainOpen, FragPrintHello, FragHelloOnly,
       FragPrintf, FragScanf, FragFor, FragWhile, FragOpenBracket, FragCloseBracket,
       FragLineComment, FragBlockComment, FragReturn >>

\* The chosen fragments, concatenated in the order of the list.
RECURSIVE Assemble(_, _)
Assemble(chosen, k) ==
    IF k > Len(Fragments) THEN <<>>
    ELSE (IF k \in chosen THEN Fragments[k] ELSE <<>>) \o Assemble(chosen, k + 1)

AnalyzerCodes ==
    { Assemble(chosen, 1) :
        chosen \in { c \in SUBSET (1..Len(Fragments)) : Cardinality(c) <= MaxFragments } }

\* The titles generateSampleProblems gives on topic "X", a title that names
\* the array category alone, and one in which "sum" stands before "hello world".
AnalyzerTitles ==
    { <<"X">> \o TitleSeparator \o t :
        t \in { TitleHelloWorldProgram, TitleSumOfTwoNumbers, TitleEvenOrOdd,
                TitleFactorialCalculator, TitleArraySum, TitlePrimeNumberCheck,
                TitleBinarySearch } }
    \cup { <<"A", "r", "r", "a", "y", "s">> \o TitleSeparator \o TitleEvenOrOdd,
           <<"S", "u", "m">> \o TitleSeparator \o TitleHelloWorldProgram }

NoAnalyzerCall == [code |-> <<>>, title |-> <<>>, result |-> <<>>, delegated |-> <<>>]

\* The input is analyzed twice: by analyzeCodeBuiltIn itself (result) and by
\* analyzeCode (delegated), whatever the provider would do if it were asked.
AnalyzeCall ==
    /\ an.result = <<>>
    /\ \E provider \in { AnalysisFailure, AnalysisAnswer(AIAnalysisResult(<<>>, ScoreNumber(50))) } :
          an' = [an EXCEPT !.result = <<analyzeCodeBuiltIn(an.code, [title |-> an.title])>>,
                           !.delegated = analyzeCode(an.code, [title |-> an.title], provider)]
    /\ UNCHANGED <<openai, assignments, submissions, req, gen, gn, users, tally>>

(***************************************************************************)
(* One run of the simulation on a problem with many test cases             *)
(***************************************************************************)
\* A problem as a provider may send it, with length test cases.
TallyProblem(length) ==
    AIProblem(1, TitleArraySum, "15", << [k \in 1..length |-> TestCase("1\n42", "42")] >>)

NoTally == [passedCount |-> 0, length |-> 0, outcome |-> <<>>]

\* The try block up to the call of analyzeCode, on code that passes the
\* pre-check, when Math.random() lets the first passedCount cases pass.
Tally ==
    /\ tally.outcome = <<>>
    /\ tally' = [tally EXCEPT !.outcome =
                    <<Simulated(CodeHello, TallyProblem(tally.length),
                                [k \in 1..tally.length |-> k <= tally.passedCount])>>]
    /\ UNCHANGED <<openai, assignments, submissions, req, gen, an, gn, users>>

(***************************************************************************)
(* Specifications                                                          *)
(***************************************************************************)
EmptyMap == [k \in {} |-> 0]

\* The server after start-up: the client exists or not, the maps are empty.
Init ==
    /\ openai \in BOOLEAN
    /\ assignments = EmptyMap
    /\ submissions = EmptyMap
    /\ req = [r \in Requests |-> IdleRequest]
    /\ gen = [g \in GenerateRequests |-> NoGenerateRequest]
    /\ gn = NoGenerateCall
    /\ users = EmptyMap
    /\ an = NoAnalyzerCall
    /\ tally = NoTally

Next ==
    \/ \E r \in Requests, session \in Sessions, body \in SubmitBodies : SubmitBegin(r, session, body)
    \/ \E r \in Requests : SubmitResolve(r)
    \/ \E r \in Requests : AnalyzeBuiltInReturns(r)
    \/ \E r \in Requests : AnalyzeAIReturns(r)
    \/ \E r \in Requests : AnalyzeAIThrows(r)
    \/ \E r \in Requests : Respond(r)
    \/ \E g \in GenerateRequests, session \in Sessions, topic \in Topics,
          d \in DistributionStrings : GenerateRoute(g, session, topic, d)
    \/ \E g \in GenerateRequests, provider \in ProvidersConsulted : GenerateResolve(g, provider)
    \/ \E g \in GenerateRequests : GenerateRespond(g)
    \/ \E id \in DOMAIN assignments, isActive \in BOOLEAN : UpdateAssignment(id, isActive)

\* The routes on MemStorage.
Spec == Init /\ [][Next]_vars

NextRejecting ==
    \/ Next
    \/ \E r \in Requests : GetAssignmentRejects(r)
    \/ \E r \in Requests : CreateRejectsAfterAnalysis(r)
    \/ \E r \in Requests : CreateRejectsAfterThrow(r)
    \/ \E r \in Requests : CreateRejectsAfterSimulationThrow(r)
    \/ \E r \in Requests : CatchPersists(r)
    \/ \E r \in Requests : CatchRejects(r)
    \/ \E r \in Requests : CatchError(r)
    \/ \E g \in GenerateRequests, provider \in ProvidersConsulted :
          CreateAssignmentRejects(g, provider)
    \/ \E g \in GenerateRequests : GenerateCatch(g)

\* The routes, with updateAssignment called for the problem list as well.
NextUpdating ==
    \/ Next
    \/ \E id \in DOMAIN assignments : ReplaceProblems(id, ReplacementProblems)

SpecUpdating == Init /\ [][NextUpdating]_vars

\* The routes, and updateSubmission called by a caller outside them.
NextStorage ==
    \/ Next
    \/ \E id \in DOMAIN submissions, updateData \in SubmissionUpdates :
          UpdateSubmission(id, updateData)

SpecStorage == Init /\ [][NextStorage]_vars

\* The routes on a storage whose calls may reject.
SpecRejecting == Init /\ [][NextRejecting]_vars

\* The same, with the submitted sources drawn from those that fail the
\* structural pre-check.
NextPreCheck ==
    \/ \E r \in Requests, session \in Sessions, body \in PreCheckBodies :
          SubmitBegin(r, session, body)
    \/ \E r \in Requests : SubmitResolve(r)
    \/ \E r \in Requests : AnalyzeBuiltInReturns(r)
    \/ \E r \in Requests : AnalyzeAIReturns(r)
    \/ \E r \in Requests : AnalyzeAIThrows(r)
    \/ \E r \in Requests : Respond(r)
    \/ \E g \in GenerateRequests, session \in Sessions, topic \in Topics,
          d \in DistributionStrings : GenerateRoute(g, session, topic, d)
    \/ \E g \in GenerateRequests, provider \in ProvidersConsulted : GenerateResolve(g, provider)
    \/ \E g \in GenerateRequests : GenerateRespond(g)
    \/ \E id \in DOMAIN assignments, isActive \in BOOLEAN : UpdateAssignment(id, isActive)
    \/ \E r \in Requests : GetAssignmentRejects(r)
    \/ \E r \in Requests : CreateRejectsAfterAnalysis(r)
    \/ \E r \in Requests : CreateRejectsAfterThrow(r)
    \/ \E r \in Requests : CreateRejectsAfterSimulationThrow(r)
    \/ \E r \in Requests : CatchPersists(r)
    \/ \E r \in Requests : CatchRejects(r)
    \/ \E r \in Requests : CatchError(r)
    \/ \E g \in GenerateRequests, provider \in ProvidersConsulted :
          CreateAssignmentRejects(g, provider)
    \/ \E g \in GenerateRequests : GenerateCatch(g)

SpecPreCheck == Init /\ [][NextPreCheck]_vars

InitAnalyzer ==
    /\ openai = FALSE
    /\ assignments = EmptyMap
    /\ submissions = EmptyMap
    /\ req = [r \in Requests |-> IdleRequest]
    /\ gen = [g \in GenerateRequests |-> NoGenerateRequest]
    /\ gn = NoGenerateCall
    /\ users = EmptyMap
    /\ tally = NoTally
    /\ an \in { [code |-> c, title |-> t, result |-> <<>>, delegated |-> <<>>] :
                 c \in AnalyzerCodes, t \in AnalyzerTitles }

\* analyzeCodeBuiltIn applied once to each drawn input.
SpecAnalyzer == InitAnalyzer /\ [][AnalyzeCall]_vars

\* The repository's user operations, called in any order.
SpecUsers == Init /\ [][\E insertUser \in InsertUsers : CreateUser(insertUser)]_vars

\* generateAssignment called on drawn arguments, one call after another.
SpecGenerator == Init /\ [][GenerateCall]_vars

InitTally ==
    /\ openai = FALSE
    /\ assignments = EmptyMap
    /\ submissions = EmptyMap
    /\ req = [r \in Requests |-> IdleRequest]
    /\ gen = [g \in GenerateRequests |-> NoGenerateRequest]
    /\ gn = NoGenerateCall
    /\ users = EmptyMap
    /\ an = NoAnalyzerCall
    /\ tally \in { [passedCount |-> p, length |-> n, outcome |-> <<>>] :
                    n \in 0..MaxTestCases, p \in 0..MaxTestCases }
    /\ tally.passedCount <= tally.length

\* The simulation run once on each drawn number of test cases and of passes.
SpecTally == InitTally /\ [][Tally]_vars

(***************************************************************************)
(* Properties                                                              *)
(***************************************************************************)
\* The Submission records request r created, as stored now.
Answered(r) == req[r].pc = "done"
Succeeded(r) == Answered(r) /\ req[r].response.status = 200
SimulatedScore(r) == req[r].score

\* C1 as stated: a submission whose code lacks "int main", "#include" or
\* "return" is persisted with status "failed" and score exactly 20.
C1_PreCheckFailPersists20 ==
    \A r \in Requests : \A id \in req[r].created :
        ~PreCheckPasses(submissions[id].code) =>
            submissions[id].status = "failed" /\ submissions[id].score = 20

\* C1 amended: such a submission is persisted with status "failed"; its
\* score is 20 when the analysis of the request threw, and when the record
\* was written by the catch block after the first createSubmission call
\* rejected; otherwise it is the smaller of 20 and the score the analysis
\* returned: 20 when that score is at least 20, and that score when it is
\* below 20 or not a number.
C1_PreCheckFailPersistsMinimum ==
    \A r \in Requests : \A id \in req[r].created :
        ~PreCheckPasses(submissions[id].code) =>
            /\ submissions[id].status = "failed"
            /\ IF req[r].analysis # <<>> /\ req[r].createCalls = 1
               THEN IF NumGE(req[r].analysis[1].score, 20)
                    THEN submissions[id].score = 20
                    ELSE submissions[id].score = req[r].analysis[1].score
               ELSE submissions[id].score = 20

\* Two requests with the code that lacks all three, each given 15 by the
\* built-in analyzer: one is persisted by its first createSubmission call
\* with score 15, the other by the catch block, after its first call
\* rejected, with score 20.
C1_Witness ==
    \E r1, r2 \in Requests : \E id1 \in req[r1].created, id2 \in req[r2].created :
        /\ ~openai
        /\ submissions[id1].code = CodeNoStructure /\ submissions[id2].code = CodeNoStructure
        /\ submissions[id1].status = "failed" /\ submissions[id2].status = "failed"
        /\ req[r1].createCalls = 1 /\ req[r1].analysis # <<>>
        /\ req[r1].analysis[1].score = 15 /\ submissions[id1].score = 15
        /\ req[r2].createCalls = 2 /\ req[r2].analysis # <<>>
        /\ req[r2].analysis[1].score = 15 /\ submissions[id2].score = 20

\* Code that has "int main" and "#include" and lacks "return" alone,
\* persisted as failed with the score 0 the provider's analysis returned; and
\* code that lacks "int main" alone, given 70 by the built-in analyzer and
\* persisted as failed with score 20.
C1_WitnessLacksReturn ==
    \E r \in Requests : \E id \in req[r].created :
        /\ submissions[id].code = CodeNoReturn
        /\ Includes(submissions[id].code, NeedleIntMain)
        /\ Includes(submissions[id].code, NeedleInclude)
        /\ ~Includes(submissions[id].code, NeedleReturn)
        /\ submissions[id].status = "failed"
        /\ req[r].createCalls = 1 /\ req[r].analysis # <<>>
        /\ req[r].analysis[1].score = 0 /\ submissions[id].score = 0
C1_WitnessLacksMain ==
    \E r \in Requests : \E id \in req[r].created :
        /\ ~openai
        /\ submissions[id].code = CodeNoMain
        /\ ~Includes(submissions[id].code, NeedleIntMain)
        /\ Includes(submissions[id].code, NeedleInclude)
        /\ Includes(submissions[id].code, NeedleReturn)
        /\ submissions[id].status = "failed"
        /\ req[r].createCalls = 1 /\ req[r].analysis # <<>>
        /\ req[r].analysis[1].score = 70 /\ submissions[id].score = 20

\* C2: every persisted score is less than or equal to the simulated score of
\* the request that persisted it.
C2_PersistedAtMostSimulated ==
    \A r \in Requests : \A id \in req[r].created :
        NumLE(submissions[id].score, SimulatedScore(r))

\* C3: whenever the analysis returned a result, the persisted score is the
\* minimum of the simulated score and the analysis score, also on a storage
\* whose calls may reject.
C3_PersistedIsMinimum ==
    \A r \in Requests : \A id \in req[r].created :
        req[r].analysis # <<>> =>
            submissions[id].score = MathMin(SimulatedScore(r), req[r].analysis[1].score)

\* C4: a request answered with success has created exactly one Submission,
\* which is stored as answered; a request answered otherwise has created
\* none; a request not answered yet has created none or is suspended on the
\* one createSubmission call whose record it will answer with; the stored
\* submissions are exactly the ones the requests created, each by one
\* request, so none was overwritten.
C4_ExactlyOneSubmissionPerSuccess ==
    /\ \A r \in Requests :
          IF Succeeded(r)
          THEN /\ req[r].created = {req[r].response.submission.id}
               /\ getSubmission(req[r].response.submission.id) = <<req[r].response.submission>>
          ELSE IF Answered(r) \/ req[r].pc # "respond"
          THEN req[r].created = {}
          ELSE /\ req[r].created = {req[r].pending[1].submission.id}
               /\ getSubmission(req[r].pending[1].submission.id) = <<req[r].pending[1].submission>>
               /\ req[r].pending[1].status = 200
    /\ DOMAIN submissions = UNION {req[r].created : r \in Requests}
    /\ \A r1, r2 \in Requests : r1 # r2 => req[r1].created \cap req[r2].created = {}
    /\ Cardinality(DOMAIN submissions)
          = Cardinality({r \in Requests : Succeeded(r) \/ req[r].pc = "respond"})

\* Two requests answered with success, the second createSubmission having
\* followed a rejected one in one of them.
C4_Witness ==
    /\ \A r \in Requests : Succeeded(r)
    /\ \E r \in Requests : req[r].createCalls = 2
    /\ Cardinality(DOMAIN submissions) = 2

\* What the gates of the submit route see in request r.
IsStudent(session) == session.authenticated /\ session.role = "student"
AssignmentUsable(r) == req[r].assignment # <<>> /\ req[r].assignment[1].isActive
IndexOf(r) == req[r].body[1].problemIndex[1]
IndexInRange(r) == IndexOf(r) >= 0 /\ IndexOf(r) < Len(req[r].assignment[1].problems)
RejectedAtGate(r) == Answered(r) /\ req[r].response.status \in {400, 403, 404}

\* C5: a request rejected at the authorization gate, at assignment resolution
\* or at problem resolution never invoked the analysis and created nothing,
\* the step that rejects it leaves the submission store unchanged, and an
\* out-of-range index on an active assignment is answered 400 (an unusable
\* assignment 404, a caller who is no student 403).
C5_GateRejectionsHaveNoEffect ==
    /\ [](\A r \in Requests :
            /\ RejectedAtGate(r) => req[r].analyzeCalls = 0 /\ req[r].created = {}
            /\ Answered(r) /\ ~IsStudent(req[r].session) => req[r].response.status = 403
            /\ Answered(r) /\ IsStudent(req[r].session) /\ ParsesAsSubmission(req[r].body[1])
                  /\ ~AssignmentUsable(r)
                  => req[r].response.status = 404
            /\ Answered(r) /\ IsStudent(req[r].session) /\ ParsesAsSubmission(req[r].body[1])
                  /\ AssignmentUsable(r) /\ ~IndexInRange(r)
                  => req[r].response.status = 400)
    /\ [][\A r \in Requests :
            ~Answered(r) /\ req'[r].pc = "done" /\ req'[r].response.status \in {400, 403, 404}
                => submissions' = submissions]_vars

\* A negative index and an index past the end, both on an active assignment
\* with problems, both answered 400.
C5_Witness ==
    \E r1, r2 \in Requests :
        /\ req[r1].response.status = 400 /\ req[r2].response.status = 400
        /\ AssignmentUsable(r1) /\ AssignmentUsable(r2)
        /\ IndexOf(r1) < 0
        /\ IndexOf(r2) >= Len(req[r2].assignment[1].problems)
        /\ Len(req[r2].assignment[1].problems) > 0

\* The submission key of a request: student, assignment, problem index.
KeyOf(r) == <<req[r].session.id, req[r].body[1].assignmentId[1], IndexOf(r)>>
PassedGates(r) ==
    /\ IsStudent(req[r].session) /\ req[r].body # <<>> /\ ParsesAsSubmission(req[r].body[1])
    /\ req[r].pc \in {"analyze", "respond", "done"}
    /\ AssignmentUsable(r) /\ IndexInRange(r)

\* C6: two requests with the same student, assignment and problem index that
\* both passed the gates, in whatever order their steps interleave, have both
\* succeeded once both are answered, and have left two stored Submissions
\* with distinct ids, each as its own request answered it.
C6_SameKeyRequestsBothPersist ==
    \A r1, r2 \in Requests :
        r1 # r2 /\ PassedGates(r1) /\ PassedGates(r2) /\ KeyOf(r1) = KeyOf(r2)
           /\ Answered(r1) /\ Answered(r2)
        => /\ Succeeded(r1) /\ Succeeded(r2)
           /\ req[r1].response.submission.id # req[r2].response.submission.id
           /\ getSubmission(req[r1].response.submission.id) = <<req[r1].response.submission>>
           /\ getSubmission(req[r2].response.submission.id) = <<req[r2].response.submission>>

\* Two answered requests with one key and different code, the second having
\* begun before the first was answered (its id was drawn first).
C6_Witness ==
    /\ PassedGates(1) /\ PassedGates(2) /\ KeyOf(1) = KeyOf(2)
    /\ Succeeded(1) /\ Succeeded(2)
    /\ req[2].response.submission.id = SubmissionId(1)
    /\ req[1].response.submission.id = SubmissionId(2)

\* C7: when the analysis threw in a request that passed the gates, the
\* request is answered with success: the Submission is stored with the
\* status, test results and simulated score computed before, and the answer
\* carries the fallback feedback and no suggestions.
C7_AnalysisFailureIsRecovered ==
    \A r \in Requests :
        Answered(r) /\ req[r].analyzeCalls = 1 /\ req[r].analysis = <<>> =>
            /\ req[r].response.status = 200
            /\ req[r].response.feedback = FallbackFeedback
            /\ req[r].response.suggestions = <<>>
            /\ req[r].response.testResults = req[r].testResults
            /\ \E id \in DOMAIN submissions :
                  /\ req[r].created = {id}
                  /\ submissions[id] = req[r].response.submission
                  /\ submissions[id].status = req[r].status
                  /\ submissions[id].testResults = req[r].testResults
                  /\ submissions[id].score = SimulatedScore(r)
                  /\ submissions[id].status \in {"passed", "failed"}

\* An analysis that threw, recovered into a stored, passed Submission.
C7_Witness ==
    \E r \in Requests :
        /\ openai /\ Succeeded(r) /\ req[r].analyzeCalls = 1 /\ req[r].analysis = <<>>
        /\ req[r].response.submission.status = "passed"
        /\ req[r].response.submission.score = 100

\* C8: the score the built-in analyzer returns is an integer from 0 to 100.
C8_BuiltInScoreInRange ==
    an.result # <<>> => an.result[1].score \in 0..100

\* The two extremes: the code matching every positive check, whose score is
\* 105 before the clamp and 100 after ...
C8_Witness ==
    /\ an.result # <<>>
    /\ AnalysisBeforeClamp(an.code, [title |-> an.title]).score = 105
    /\ an.result[1].score = 100

\* ... and the empty code.
C8_WitnessEmpty ==
    an.result # <<>> /\ an.code = <<>> /\ an.result[1].score \in 0..100

\* C9: the suggestions list the built-in analyzer returns is never empty.
C9_BuiltInSuggestionsNonEmpty ==
    an.result # <<>> => Len(an.result[1].suggestions) >= 1

\* A result whose only suggestion is the one about comments: no structural
\* and no topic suggestion was pushed.
C9_Witness ==
    /\ an.result # <<>>
    /\ Len(an.result[1].suggestions) = 1
    /\ an.result[1].suggestions[1] \in {SugCommentsGood, SugCommentsMissing}

\* The latest call of generateAssignment returned (it did not throw) ...
GenerateReturned == gn.outcome # <<>> /\ ~gn.outcome[1].threw
\* ... this value; <<>> when it returned undefined.
ReturnedProblems == IF gn.outcome[1].problems = <<>> THEN <<>> ELSE gn.outcome[1].problems[1]
CountOf(problems, difficulty) ==
    Cardinality({k \in 1..Len(problems) : problems[k].difficulty = difficulty})
CountsMatch(problems, difficulty) ==
    /\ Len(problems) = difficulty.easy + difficulty.medium + difficulty.hard
    /\ CountOf(problems, "easy") = difficulty.easy
    /\ CountOf(problems, "medium") = difficulty.medium
    /\ CountOf(problems, "hard") = difficulty.hard

\* C11: every call of generate that returns, with or without a client,
\* returns a sequence of exactly easy+medium+hard problems, of which exactly
\* easy, medium and hard carry the respective difficulty.
C11_GenerateCountsMatch ==
    GenerateReturned =>
        gn.outcome[1].problems # <<>> /\ CountsMatch(ReturnedProblems, gn.difficulty)

\* The part of C11 about the template bank.
C11_TemplateModeCountsMatch ==
    GenerateReturned /\ ~openai =>
        gn.outcome[1].problems # <<>> /\ CountsMatch(ReturnedProblems, gn.difficulty)

\* C12: without a client, the k-th problem returned has id "problem_k", in
\* the first call and in every later one; the ids are pairwise distinct and
\* their numbers increase along the sequence; the easy problems come first,
\* then the medium ones, then the hard ones.
C12_TemplateIdsCountFromOne ==
    GenerateReturned /\ ~openai =>
        LET problems == ReturnedProblems
            easy == gn.difficulty.easy
            medium == gn.difficulty.medium
        IN /\ Len(problems) = easy + medium + gn.difficulty.hard
           /\ \A k \in 1..Len(problems) :
                 /\ problems[k].id = <<"problem_", k>>
                 /\ problems[k].difficulty =
                       IF k <= easy THEN "easy"
                       ELSE IF k <= easy + medium THEN "medium" ELSE "hard"
           /\ \A j, k \in 1..Len(problems) :
                 j < k => problems[j].id # problems[k].id /\ problems[j].id[2] < problems[k].id[2]

\* A second call without a client, with problems of all three difficulties,
\* whose first id is "problem_1" again.
C12_Witness ==
    /\ GenerateReturned /\ ~openai /\ gn.calls = 2
    /\ gn.difficulty.easy >= 2 /\ gn.difficulty.medium >= 1 /\ gn.difficulty.hard >= 1
    /\ ReturnedProblems[1].id = <<"problem_", 1>>
    /\ ReturnedProblems[Len(ReturnedProblems)].difficulty = "hard"

\* C13: when a client is configured and the provider call fails or its
\* answer cannot be parsed, generateAssignment throws (it returns no
\* problems, from the template bank or otherwise), the generation route
\* answers 500 without an assignment, and that request leaves the assignment
\* store as it was: no step that creates an assignment belongs to a request
\* whose provider call failed.
C13_ProviderFailureCreatesNothing ==
    /\ [](\A g \in GenerateRequests :
            gen[g].providerFailed =>
                gen[g].threw /\ gen[g].status = 500 /\ gen[g].assignment = <<>>)
    /\ [][\A g \in GenerateRequests :
            gen'[g].providerFailed /\ gen'[g] # gen[g] => assignments' = assignments]_vars
    /\ [][DOMAIN assignments' # DOMAIN assignments =>
            \E g \in GenerateRequests :
                /\ gen'[g] # gen[g] /\ ~gen'[g].providerFailed
                /\ \A h \in GenerateRequests \ {g} : gen'[h] = gen[h]]_vars

\* A teacher's request that arrived while the handler of an earlier one was
\* suspended on createAssignment, whose provider call failed and which was
\* answered 500 while the earlier handler is still suspended; the store holds
\* the earlier request's assignment and nothing else.
C13_Witness ==
    /\ openai
    /\ gen[2].providerFailed /\ gen[2].threw /\ gen[2].status = 500 /\ gen[2].pc = "done"
    /\ gen[1].pc = "createAssignment"
    /\ DOMAIN assignments = {gen[1].pending[1].assignment[1]}

\* C14: without a client, analyzeCode returns exactly what analyzeCodeBuiltIn
\* returns for the same code and problem, and does not throw, whatever the
\* provider would have done.
C14_NoClientDelegatesToBuiltIn ==
    ~openai /\ an.result # <<>> => an.delegated = an.result

\* A call without a client, returned with the built-in analyzer's result for
\* a code that scores below the base.
C14_Witness ==
    /\ ~openai /\ an.result # <<>> /\ an.delegated # <<>>
    /\ an.delegated[1].score = an.result[1].score
    /\ an.delegated[1].score < BaseScore
    /\ an.delegated[1].suggestions = an.result[1].suggestions

\* C15: with a client, whatever parseable answer the provider sent, the
\* score analyzeCode returned lies in 0..100, and the suggestions it returned
\* are the empty sequence when the answer had no suggestions field.
C15_AIAnalysisNormalised ==
    \A r \in Requests :
        openai /\ req[r].analysis # <<>> =>
            /\ req[r].analysis[1].score \in 0..100
            /\ \A result \in AIAnalysisResults :
                  req[r].analysis[1] = analyzeCodeAI(result) /\ result.suggestions = <<>>
                      => req[r].analysis[1].suggestions = <<>>

\* C16: every stored Submission has a score that is an integer from 0 to 100.
C16_PersistedScoreInRange ==
    \A id \in DOMAIN submissions : submissions[id].score \in 0..100

\* C17: a submit request calls createSubmission at most once, and a request
\* whose createSubmission call rejected is answered 500 and has stored nothing.
C17_SinglePassNoRetry ==
    \A r \in Requests :
        /\ req[r].createCalls <= 1
        /\ Answered(r) /\ req[r].createCalls > Cardinality(req[r].created)
              => req[r].response.status = 500 /\ req[r].created = {}

\* C18: no two stored User records share a username, and no two share an
\* email.
C18_UsernamesAndEmailsUnique ==
    \A u1, u2 \in DOMAIN users :
        u1 # u2 => /\ users[u1].username # users[u2].username
                   /\ users[u1].email # users[u2].email

\* C19: whatever the routes do, a stored Submission is never removed and
\* never modified: every step leaves each stored record in place with the
\* id, studentId, assignmentId, problemIndex, code, status, testResults and
\* score it has.
C19_SubmissionsNeverChange ==
    [][\A id \in DOMAIN submissions :
          id \in DOMAIN submissions' /\ submissions'[id] = submissions[id]]_vars

\* Two stored Submissions, the first still as the request that created it was
\* answered, after the second was created.
C19_Witness ==
    \E r1, r2 \in Requests :
        /\ Succeeded(r1)
        /\ req[r1].created = {SubmissionId(1)} /\ req[r2].created = {SubmissionId(2)}
        /\ DOMAIN submissions = {SubmissionId(1), SubmissionId(2)}
        /\ submissions[SubmissionId(1)] = req[r1].response.submission
        /\ submissions[SubmissionId(1)].code # submissions[SubmissionId(2)].code

\* C20: when the pre-check passes, the simulation gives one test result per
\* test case of the problem, numbered 1..n in order; its score is
\* 100 * passed / n rounded to the nearest integer, halves up (not a number
\* when n = 0, as Math.round gives for 0/0); and the status is "passed" iff
\* that score is at least 60.
C20_SimulationScoresByPassedShare ==
    \A outcome \in { tally.outcome[k] : k \in 1..Len(tally.outcome) } :
        LET n == tally.length
            passed == Cardinality({ k \in 1..Len(outcome.testResults) :
                                      outcome.testResults[k].passed })
            score == outcome.score
        IN /\ Len(outcome.testResults) = n
           /\ \A k \in 1..n : outcome.testResults[k].testCase = k
           /\ n > 0 => /\ score \in 0..100
                       /\ 2 * n * score <= 200 * passed + n
                       /\ 200 * passed + n < 2 * n * score + 2 * n
           /\ n = 0 => IsNaN(score)
           /\ outcome.status = IF ~IsNaN(score) /\ score >= 60 THEN "passed" ELSE "failed"

(***************************************************************************)
(* The built-in analyzer, check by check                                   *)
(***************************************************************************)
\* The four topic categories in the order the claim gives them, with the
\* sentence, the suggestion and the points of each.
TopicNeedles == <<NeedleHelloWorld, NeedleSum, NeedleFactorial, NeedleArray>>
TopicSentences == <<FbHello, FbSum, FbFactorial, FbArray>>
TopicSuggestions == <<SugHello, SugSum, SugFactorial, SugArray>>
TopicBonus == <<20, 15, 15, 10>>
TopicPenalty == <<15, 10, 10, 15>>

\* The first category whose keyword the lower-cased title contains, 0 if none.
FirstTopic(title) ==
    LET m == { i \in 1..4 : Includes(ToLowerCase(title), TopicNeedles[i]) }
    IN IF m = {} THEN 0 ELSE CHOOSE i \in m : \A j \in m : i <= j

\* The positions of the suggestions list that hold a topic suggestion.
TopicPositions(suggestions) ==
    { k \in 1..Len(suggestions) : \E i \in 1..4 : suggestions[k] = TopicSuggestions[i] }

\* The unclamped score of the analyzed input, and of the same code under a
\* title that names no category.
Unclamped == AnalysisBeforeClamp(an.code, [title |-> an.title]).score
UnclampedNoTopic == AnalysisBeforeClamp(an.code, [title |-> <<>>]).score

\* C21: the analyzer applies the adjustment of the first category, in the order
\* hello world, sum, factorial, array, whose keyword the lower-cased title
\* contains, and of no other: either its bonus with its sentence, or its
\* penalty with its suggestion.  A title that names no category gets no topic
\* adjustment, no topic suggestion and the default sentence.
C21_FirstMatchingTopicOnly ==
    an.result # <<>> =>
        LET i == FirstTopic(an.title)
            r == an.result[1]
            at == TopicPositions(r.suggestions)
        IN IF i = 0
           THEN Unclamped = UnclampedNoTopic /\ at = {} /\ r.feedback[1] = FbAnalyzed
           ELSE \/ /\ Unclamped = UnclampedNoTopic + TopicBonus[i]
                   /\ r.feedback[1] = TopicSentences[i]
                   /\ at = {}
                \/ /\ Unclamped = UnclampedNoTopic - TopicPenalty[i]
                   /\ r.feedback[1] = FbAnalyzed
                   /\ Cardinality(at) = 1
                   /\ \A k \in at : r.suggestions[k] = TopicSuggestions[i]

\* "Array Sum" names two categories; code with brackets and no scanf is judged
\* by the sum rule and is told to use scanf, the array rule is not applied.
C21_Witness ==
    /\ an.result # <<>>
    /\ an.title = <<"X">> \o TitleSeparator \o TitleArraySum
    /\ Includes(an.code, NeedleOpenBracket) /\ Includes(an.code, NeedleCloseBracket)
    /\ ~Includes(an.code, NeedleScanf)
    /\ \E k \in 1..Len(an.result[1].suggestions) : an.result[1].suggestions[k] = SugSum
    /\ an.result[1].feedback[1] = FbAnalyzed

\* What the return check contributed: the unclamped score less the score of
\* the other checks run without it.
ScoreWithoutReturnCheck ==
    LET code == an.code
        hasPrintf == Includes(code, NeedlePrintf)
        hasScanf == Includes(code, NeedleScanf)
        a1 == CheckMain(AnalysisStart, Includes(code, NeedleIntMain))
        a2 == CheckStdio(a1, Includes(code, NeedleIncludeStdio), hasPrintf, hasScanf)
        a4 == CheckTopic(a2, code, an.title, hasPrintf, hasScanf)
    IN CheckComments(a4, Includes(code, NeedleLineComment) \/ Includes(code, NeedleBlockComment)).score

ReturnAdjustment == Unclamped - ScoreWithoutReturnCheck

HasReturnSuggestion ==
    \E k \in 1..Len(an.result[1].suggestions) : an.result[1].suggestions[k] = SugReturn

\* C22: the return check adjusts the score only when the code
\* contains "int main" (+5 with "return", -5 and a suggestion without); for
\* code without "int main" it changes neither the score nor the suggestions.
C22_ReturnCheckOnlyWithMain ==
    an.result # <<>> =>
        IF Includes(an.code, NeedleIntMain)
        THEN IF Includes(an.code, NeedleReturn)
             THEN ReturnAdjustment = 5 /\ ~HasReturnSuggestion
             ELSE ReturnAdjustment = -5 /\ HasReturnSuggestion
        ELSE ReturnAdjustment = 0 /\ ~HasReturnSuggestion

\* C29: the score before the clamp is never below 15, so the lower clamp never
\* changes it; the clamp changes the score only when it is 105, which takes
\* main, stdio, return, comments and a hello-world title with the exact output.
C29_UnclampedFrom15To105 ==
    an.result # <<>> =>
        /\ Unclamped >= 15
        /\ an.result[1].score # Unclamped =>
              /\ Unclamped = 105 /\ an.result[1].score = 100
              /\ Includes(an.code, NeedleIntMain)
              /\ Includes(an.code, NeedleIncludeStdio)
              /\ Includes(an.code, NeedleReturn)
              /\ Includes(an.code, NeedleLineComment) \/ Includes(an.code, NeedleBlockComment)
              /\ FirstTopic(an.title) = 1
              /\ Includes(an.code, NeedlePrintf) /\ Includes(an.code, NeedleHelloLiteral)

\* The lowest score: printf with no main, no stdio and no literal, on a
\* hello-world title.
C29_Witness ==
    /\ an.result # <<>>
    /\ Unclamped = 15
    /\ an.result[1].score = 15

\* C30: the returned list holds exactly one of the two comment suggestions,
\* the one that fits the code, and never the generic one.
C30_OneCommentSuggestionNoGeneric ==
    an.result # <<>> =>
        LET s == an.result[1].suggestions
            hasComments == Includes(an.code, NeedleLineComment) \/ Includes(an.code, NeedleBlockComment)
            good == { k \in 1..Len(s) : s[k] = SugCommentsGood }
            missing == { k \in 1..Len(s) : s[k] = SugCommentsMissing }
        IN /\ Cardinality(good) = (IF hasComments THEN 1 ELSE 0)
           /\ Cardinality(missing) = (IF hasComments THEN 0 ELSE 1)
           /\ \A k \in 1..Len(s) : s[k] # SugGeneric

\* Uncommented code that draws no other suggestion: the list is the one
\* suggestion to add comments, and the generic one has no occasion.
C30_Witness ==
    /\ an.result # <<>>
    /\ an.result[1].suggestions = <<SugCommentsMissing>>

(***************************************************************************)
(* The template bank                                                       *)
(***************************************************************************)
\* The bank of a difficulty and the limits the claim gives for it.
BankOf(difficulty) ==
    IF difficulty = "easy" THEN EasyTemplates
    ELSE IF difficulty = "medium" THEN MediumTemplates ELSE HardTemplates
LimitsOf(difficulty) ==
    IF difficulty = "easy" THEN <<1, 64>>
    ELSE IF difficulty = "medium" THEN <<2, 128>> ELSE <<5, 256>>

\* How many problems of the same difficulty stand before position k: the
\* 0-based i of problem k within its difficulty.
IndexInDifficulty(problems, k) ==
    Cardinality({ j \in 1..(k - 1) : problems[j].difficulty = problems[k].difficulty })

\* C23: without a client the i-th problem (0-based) of a difficulty is built
\* from template i mod bank size of that difficulty's bank (3 easy, 2 medium,
\* 2 hard templates): its title is the topic, " - " and the template's title,
\* it carries the template's sample output and test cases, and its limits are
\* (1,64), (2,128) or (5,256) by difficulty.
C23_TemplateByIndexModBank ==
    /\ Len(EasyTemplates) = 3 /\ Len(MediumTemplates) = 2 /\ Len(HardTemplates) = 2
    /\ GenerateReturned /\ ~openai =>
          \A k \in 1..Len(ReturnedProblems) :
              LET p == ReturnedProblems[k]
                  bank == BankOf(p.difficulty)
                  t == bank[(IndexInDifficulty(ReturnedProblems, k) % Len(bank)) + 1]
              IN /\ p.title = gn.topic \o <<" ", "-", " ">> \o t.title
                 /\ p.sampleInput = t.sampleInput
                 /\ p.sampleOutput = t.sampleOutput
                 /\ p.testCases = << t.testCases >>
                 /\ <<p.timeLimit, p.memoryLimit>> = LimitsOf(p.difficulty)

\* Four easy problems and a medium one on the topic "Recursion": the fourth
\* easy problem wraps round to the first template, and the medium problem,
\* fifth in the list, is built from the first medium template.
C23_Witness ==
    /\ GenerateReturned /\ ~openai
    /\ gn.topic = <<"R", "e", "c", "u", "r", "s", "i", "o", "n">>
    /\ gn.difficulty.easy = 4 /\ gn.difficulty.medium >= 1
    /\ ReturnedProblems[4].title = gn.topic \o <<" ", "-", " ">> \o TitleHelloWorldProgram
    /\ ReturnedProblems[5].title = gn.topic \o <<" ", "-", " ">> \o TitleFactorialCalculator
    /\ ReturnedProblems[5].timeLimit = 2

(***************************************************************************)
(* The generation route's pattern                                          *)
(***************************************************************************)
\* C24: a generation request of a teacher whose difficultyDistribution does not
\* match the pattern is answered 400, has not called generate and has no
\* assignment; the step that answers it leaves the assignment store as it was.
C24_MalformedDistributionRejected ==
    /\ [](\A g \in GenerateRequests :
            gen[g].session.authenticated /\ gen[g].session.role = "teacher"
                /\ gen[g].malformed # <<>>
            => gen[g].status = 400 /\ gen[g].generateCalls = 0 /\ gen[g].assignment = <<>>)
    /\ [][\A g \in GenerateRequests :
            gen'[g] # gen[g] /\ gen'[g].session.role = "teacher" /\ gen'[g].malformed # <<>>
            => assignments' = assignments]_vars

\* A teacher's request with "1Easy, 1 Medium, 1 Hard" that arrived while the
\* handler of an earlier request was suspended on generateAssignment, answered
\* 400 with that handler still suspended and the store still empty.
C24_Witness ==
    /\ gen[2].session.role = "teacher" /\ gen[2].status = 400 /\ gen[2].pc = "done"
    /\ gen[2].malformed # <<>> /\ gen[2].malformed[1][2] = "E"
    /\ gen[2].generateCalls = 0
    /\ gen[1].pc = "generateAssignment"
    /\ assignments = EmptyMap

(***************************************************************************)
(* What the submit route persists                                          *)
(***************************************************************************)
\* The simulation outcomes the server can compute for the request's code and
\* resolved problem, one per way the random draws can fall.
ServerOutcomes(r) ==
    { Simulated(req[r].body[1].code[1], ResolvedProblem(r), passes) :
        passes \in [1..Len(CasesOf(ResolvedProblem(r))) -> BOOLEAN] }

\* C25: every Submission a request persists has the caller's id as studentId,
\* and its status, testResults and score are those the server computed in that
\* request (the score merged with the analysis score, or unmerged on the
\* fallback path), whatever the body carries in those fields; the status is
\* "passed" or "failed".
C25_ServerSetsIdentityAndVerdict ==
    \A r \in Requests : \A id \in req[r].created :
        /\ submissions[id].studentId = req[r].session.id
        /\ submissions[id].status \in {"passed", "failed"}
        /\ \E sim \in ServerOutcomes(r) :
              /\ submissions[id].status = sim.status
              /\ submissions[id].testResults = sim.testResults
              /\ submissions[id].score \in
                    { sim.score } \cup
                    { MathMin(sim.score, req[r].analysis[k].score) : k \in 1..Len(req[r].analysis) }

\* A body that names another student, status "error", a passed test result and
\* score 100, persisted under the caller's id as "failed" with at most 20.
C25_Witness ==
    \E r \in Requests : \E id \in req[r].created :
        /\ req[r].body[1].studentId = <<"student-2">>
        /\ req[r].body[1].status = <<"error">>
        /\ req[r].body[1].score = <<100>>
        /\ submissions[id].studentId = "student-1"
        /\ submissions[id].status = "failed"
        /\ submissions[id].score <= 20
        /\ ~submissions[id].testResults[1].passed

\* C26: the persisted status is the one the simulated score gives ("passed"
\* iff the pre-check passed and the simulated score is at least 60), on the
\* merging path and on the fallback path alike, whatever the analysis score
\* and whatever the persisted score.
C26_StatusFromSimulatedScoreAlone ==
    \A r \in Requests : \A id \in req[r].created :
        submissions[id].status =
            IF /\ PreCheckPasses(submissions[id].code)
               /\ ~IsNaN(SimulatedScore(r)) /\ SimulatedScore(r) >= 60
            THEN "passed" ELSE "failed"

\* A Submission persisted as "passed" with a score below 60: the analysis
\* score was the lower one.
C26_Witness ==
    \E r \in Requests : \E id \in req[r].created :
        /\ submissions[id].status = "passed"
        /\ ~IsNaN(submissions[id].score) /\ submissions[id].score < 60
        /\ SimulatedScore(r) >= 60
        /\ req[r].analysis # <<>> /\ req[r].analysis[1].score = submissions[id].score

\* C28: when the pre-check passed, every test result the request computed,
\* passed or failed, reports the problem's sampleOutput as output and as
\* expected; a test case's own expectedOutput is reported only where it
\* happens to be the sampleOutput.  The persisted results are the same.
C28_ResultsReportSampleOutput ==
    \A r \in Requests :
        req[r].analyzeCalls = 1 /\ PreCheckPasses(SubmissionData(r).code) =>
            LET problem == ResolvedProblem(r)
                cases == CasesOf(problem)
            IN /\ \A k \in 1..Len(req[r].testResults) :
                     /\ req[r].testResults[k].output = problem.sampleOutput
                     /\ req[r].testResults[k].expected = problem.sampleOutput
                     /\ req[r].testResults[k].expected = cases[k].expectedOutput
                           => cases[k].expectedOutput = problem.sampleOutput
               /\ \A id \in req[r].created :
                     submissions[id].testResults = req[r].testResults

\* "Factorial Calculator": the second case expects "1", the sample output is
\* "120"; the persisted result of that case failed and reports "120" twice.
C28_Witness ==
    \E r \in Requests : \E id \in req[r].created :
        /\ PreCheckPasses(submissions[id].code)
        /\ Len(submissions[id].testResults) = 3
        /\ ~submissions[id].testResults[2].passed
        /\ submissions[id].testResults[2].output = "120"
        /\ submissions[id].testResults[2].expected = "120"
        /\ CasesOf(ResolvedProblem(r))[2].expectedOutput = "1"

(***************************************************************************)
(* The assignment a request read                                           *)
(***************************************************************************)
\* The problem of the record the request got from getAssignment.
ProblemRead(r) == req[r].assignment[1].problems[IndexOf(r) + 1]

\* C27: a request that has passed the assignment and problem gates is not
\* turned away later: once answered it has persisted exactly one Submission,
\* whatever the stored assignment has become in the meantime, and the
\* persisted results are those of the problem in the record the request read.
C27_AssignmentCheckedOnce ==
    \A r \in Requests :
        req[r].analyzeCalls = 1 =>
            /\ req[r].assignment[1].isActive /\ IndexInRange(r)
            /\ Answered(r) =>
                  /\ req[r].response.status = 200
                  /\ Cardinality(req[r].created) = 1
                  /\ \A id \in req[r].created :
                        \E passes \in [1..Len(CasesOf(ProblemRead(r))) -> BOOLEAN] :
                            submissions[id].testResults =
                                Simulated(submissions[id].code, ProblemRead(r), passes).testResults

\* Request 1 read the generated problems; the list was replaced; request 2
\* read the replaced list and persisted the first Submission; request 1 then
\* persisted the second one, with the sample output of the problem it had
\* read, and the stored assignment is inactive and holds the replaced list.
C27_Witness ==
    /\ req[1].created = {SubmissionId(2)} /\ req[2].created = {SubmissionId(1)}
    /\ req[2].assignment[1].problems = ReplacementProblems
    /\ req[1].assignment[1].problems # ReplacementProblems
    /\ PreCheckPasses(submissions[SubmissionId(2)].code)
    /\ Len(submissions[SubmissionId(2)].testResults) >= 1
    /\ submissions[SubmissionId(2)].testResults[1].expected = ProblemRead(1).sampleOutput
    /\ ProblemRead(1).sampleOutput # "Hello!"
    /\ \A id \in DOMAIN assignments :
          ~assignments[id].isActive /\ assignments[id].problems = ReplacementProblems

=============================================================================
